---- MODULE Spec2Model ----
(***************************************************************************)
(* Model of the syllabus pipeline: the spreadsheet reader                  *)
(* (XLSXToMaestroConverter.read_xlsx), the exporter                        *)
(* (generate_maestro_json) with its classifier and text helpers, and the   *)
(* lesson allocator (SyllabusGenerator.distribute_lessons).                *)
(*                                                                         *)
(* Text is a sequence of one-character strings, so that substring search,  *)
(* lower-casing, splitting and prefix tests are computed, not assumed.     *)
(* Characters outside ASCII are named: "EM_DASH" is U+2014, "GEAR" is the  *)
(* gear sign of the practice prefix, "BOOKS" the books sign.               *)
(***************************************************************************)
EXTENDS Integers, Sequences, FiniteSets, TLC

VARIABLES
    weeks_data,       \* read_xlsx: the dict being built, in insertion order
    current_week,     \* read_xlsx: <<>> for None, <<n>> for the int n
    current_chapter,  \* read_xlsx: <<>> for None, <<n>> for the int n
    nrows,            \* read_xlsx: rows consumed from the worksheet so far
    pc,               \* "reading" | "returned" | "exited" | "exported"
    units,            \* generate_maestro_json: the document's units
    lessons,          \* distribute_lessons: the input list
    distribution,     \* distribute_lessons: week -> list of chapters
    lesson_index,     \* distribute_lessons: next unread position (0-based)
    week,             \* distribute_lessons: the outer loop variable
    dpc,              \* "idle" | "loop" | "returned"
    title,            \* classification: the lesson title under test
    category,         \* classification: "" before, then the category
    cpc,              \* "idle" | "ready" | "done"
    the_lesson,       \* lesson export: the lesson of the model being exported
    lesson_obj,       \* lesson export: the document's entry for it
    lpc,              \* "idle" | "ready" | "done" | "skipped"
    the_week,         \* unit export: week_info, the week being exported
    the_title,        \* unit export: the local week_title
    unit_description, \* unit export: the local of the same name
    unit_obj,         \* unit export: the document's unit for the week
    upc,              \* "idle" | "ready" | "done"
    the_text,         \* text helpers: the argument
    result,           \* text helpers: the value of one application
    result2,          \* text helpers: the value of a second application
    tpc,              \* "idle" | "ready" | "strip1" | "strip2" | "dash1" | "dash2"
    ai_content,       \* lesson parser: the response, as its list of lines
    line_no,          \* lesson parser: lines consumed so far
    current_lesson,   \* lesson parser: <<>> for {}, <<l>> for the dict l
    collecting_outcomes, \* lesson parser: the flag of the same name
    outcomes_lines,   \* lesson parser: the list of the same name
    parsed_lessons,   \* lesson parser: the list "lessons"
    ppc,              \* "idle" | "loop" | "returned" | "failed"
    week_lessons,     \* practice sessions: the chapters of the week
    num_sessions_per_chapter, \* practice sessions: the argument of that name
    practice_content, \* practice sessions: the response, as its list of lines
    practice_line,    \* practice sessions: lines consumed so far
    all_practice_sessions,    \* practice sessions: the list of that name
    current_chapter_sessions, \* practice sessions: the list of that name
    current_session,  \* practice sessions: <<>> for {}, <<s>> for the dict s
    week_lessons_with_practice, \* add_practice_sessions_to_week: its value
    api_calls,        \* practice sessions: requests sent to the collaborator
    gpc,              \* "called" | "loop" | "parsed" | "returned" | "failed" | ...
    week_num,         \* generate_syllabus: the loop variable
    sheet_rows,       \* generate_syllabus: the worksheet rows below the header
    generated_weeks,  \* generate_syllabus: its dict weeks_data, week -> (goal, lessons)
    request_log,      \* generate_syllabus: the requests sent, as (week, kind)
    spc,              \* "idle" | "loop" | "saved" | "read"
    estimated_times,  \* adjust_times_to_30_hours: the argument, a list of times per chapter
    adjusted_times,   \* adjust_times_to_30_hours: the value returned
    apc               \* "idle" | "called" | "returned"

vars == <<weeks_data, current_week, current_chapter, nrows, pc, units,
          lessons, distribution, lesson_index, week, dpc,
          title, category, cpc,
          the_lesson, lesson_obj, lpc,
          the_week, the_title, unit_description, unit_obj, upc,
          the_text, result, result2, tpc,
          ai_content, line_no, current_lesson, collecting_outcomes,
          outcomes_lines, parsed_lessons, ppc,
          week_lessons, num_sessions_per_chapter, practice_content,
          practice_line, all_practice_sessions, current_chapter_sessions,
          current_session,
          week_lessons_with_practice, api_calls, gpc,
          week_num, sheet_rows, generated_weeks, request_log, spc,
          estimated_times, adjusted_times, apc>>

xlsxVars == <<weeks_data, current_week, current_chapter, nrows, pc, units>>
distVars == <<lessons, distribution, lesson_index, week, dpc>>
classVars == <<title, category, cpc>>
lessonVars == <<the_lesson, lesson_obj, lpc>>
unitVars == <<the_week, the_title, unit_description, unit_obj, upc>>
textVars == <<the_text, result, result2, tpc>>
parseVars == <<ai_content, line_no, current_lesson, collecting_outcomes,
               outcomes_lines, parsed_lessons, ppc>>
practiceVars == <<week_lessons, num_sessions_per_chapter,
                  practice_content, practice_line,
                  all_practice_sessions, current_chapter_sessions,
                  current_session, week_lessons_with_practice, api_calls, gpc>>
syllabusVars == <<week_num, sheet_rows, generated_weeks, request_log, spc>>
adjustVars == <<estimated_times, adjusted_times, apc>>
helperVars == <<lessonVars, unitVars, textVars>>
generatorVars == <<parseVars, practiceVars, syllabusVars, adjustVars>>

(***************************************************************************)
(* Bounds of the model.                                                    *)
(***************************************************************************)
MaxRows == 3
MaxLessons == 45
MaxFragments == 2
MaxOutcomeParts == 3
MaxGoalParts == 3
MaxTitleLen == 5
MaxDashLen == 3
MaxLines == 3

(***************************************************************************)
(* Python text primitives.                                                 *)
(***************************************************************************)
UpperAlpha == <<"A","B","C","D","E","F","G","H","I","J","K","L","M","N","O","P","Q","R","S","T","U","V","W","X","Y","Z">>
LowerAlpha == <<"a","b","c","d","e","f","g","h","i","j","k","l","m","n","o","p","q","r","s","t","u","v","w","x","y","z">>
Digits == <<"0","1","2","3","4","5","6","7","8","9">>

\* the upper-case letters with their lower-case forms
LowerOf == [c \in {UpperAlpha[i] : i \in 1..Len(UpperAlpha)} |->
               LowerAlpha[CHOOSE i \in 1..Len(UpperAlpha) : UpperAlpha[i] = c]]

\* str.lower() on one character
LowerChar(c) == IF c \in DOMAIN LowerOf THEN LowerOf[c] ELSE c

\* str.lower()
Lower(s) == [i \in 1..Len(s) |-> LowerChar(s[i])]

\* needle occurs in hay at the 0-based offset i
OccursAt(hay, needle, i) ==
    /\ i + Len(needle) <= Len(hay)
    /\ \A j \in 1..Len(needle) : hay[i + j] = needle[j]

\* needle in hay
Contains(hay, needle) ==
    \E i \in 0..(Len(hay) - Len(needle)) : OccursAt(hay, needle, i)

\* hay.startswith(needle)
StartsWith(hay, needle) == OccursAt(hay, needle, 0)

\* hay.find(needle), 0-based; -1 when absent
Find(hay, needle) ==
    IF Contains(hay, needle)
    THEN CHOOSE i \in 0..(Len(hay) - Len(needle)) :
            /\ OccursAt(hay, needle, i)
            /\ \A j \in 0..(i - 1) : ~OccursAt(hay, needle, j)
    ELSE -1

IsDigit(c) == c \in {Digits[i] : i \in 1..Len(Digits)}
DigitVal(c) == (CHOOSE i \in 1..Len(Digits) : Digits[i] = c) - 1
IsSpace(c) == c \in {" ", "\t", "\n"}

RECURSIVE LStrip(_)
LStrip(s) == IF s # <<>> /\ IsSpace(Head(s)) THEN LStrip(Tail(s)) ELSE s

RECURSIVE RStrip(_)
RStrip(s) ==
    IF s # <<>> /\ IsSpace(s[Len(s)]) THEN RStrip(SubSeq(s, 1, Len(s) - 1)) ELSE s

\* str.strip()
Strip(s) == LStrip(RStrip(s))

(***************************************************************************)
(* Spreadsheet cells of the week and chapter columns (openpyxl values):    *)
(* None, a number (integer part ip, first fractional digit fr), or text.   *)
(***************************************************************************)
NoneCell == [k |-> "none", ip |-> 0, fr |-> 0, s |-> <<>>]
NumCell(ip, fr) == [k |-> "num", ip |-> ip, fr |-> fr, s |-> <<>>]
StrCell(s) == [k |-> "str", ip |-> 0, fr |-> 0, s |-> s]

\* Python truthiness of a cell value: None, 0, 0.0 and "" are falsy
Truthy(cell) ==
    CASE cell.k = "none" -> FALSE
      [] cell.k = "num" -> cell.ip # 0 \/ cell.fr # 0
      [] OTHER -> cell.s # <<>>

\* cell == cursor in Python: a str never equals an int, 1.0 equals 1
CellEqCursor(cell, cursor) ==
    CASE cell.k = "none" -> cursor = <<>>
      [] cell.k = "num" -> cursor # <<>> /\ cell.fr = 0 /\ cell.ip = cursor[1]
      [] OTHER -> FALSE

\* float(text) succeeds: digits with at most one '.', at least one digit
IsNumericText(s) ==
    /\ s # <<>>
    /\ \A i \in 1..Len(s) : IsDigit(s[i]) \/ s[i] = "."
    /\ Cardinality({i \in 1..Len(s) : s[i] = "."}) <= 1
    /\ \E i \in 1..Len(s) : IsDigit(s[i])

RECURSIVE DigitsValue(_)
DigitsValue(s) ==
    IF s = <<>> THEN 0
    ELSE 10 * DigitsValue(SubSeq(s, 1, Len(s) - 1)) + DigitVal(s[Len(s)])

\* int(float(text)) for numeric text: the digits before the '.'
IntPartOfText(s) ==
    LET dot == Find(s, <<".">>)
    IN  DigitsValue(IF dot = -1 THEN s ELSE SubSeq(s, 1, dot))

\* int(float(cell)) raises neither ValueError nor TypeError
Coercible(cell) ==
    CASE cell.k = "none" -> FALSE
      [] cell.k = "num" -> TRUE
      [] OTHER -> IsNumericText(cell.s)

\* int(float(cell))
CoerceInt(cell) == IF cell.k = "num" THEN cell.ip ELSE IntPartOfText(cell.s)

(***************************************************************************)
(* read_xlsx.  weeks_data is the Python dict in insertion order: a         *)
(* sequence of week records, looked up by week_num.                        *)
(***************************************************************************)
HasWeek(wd, n) == \E i \in 1..Len(wd) : wd[i].week_num = n
WeekIndex(wd, n) == CHOOSE i \in 1..Len(wd) : wd[i].week_num = n

\* variant: a week cell that cannot be coerced is passed over without
\* "continue", so the rest of the iteration still runs
WeekStep_NoContinue(wd, cw, r) ==
    IF Truthy(r.week_num) /\ ~CellEqCursor(r.week_num, cw)
    THEN IF ~Coercible(r.week_num)
         THEN [outcome |-> "ok", current_week |-> cw, weeks_data |-> wd]
         ELSE LET n == CoerceInt(r.week_num)
              IN  [outcome |-> "ok",
                   current_week |-> <<n>>,
                   weeks_data |->
                      IF HasWeek(wd, n) THEN wd
                      ELSE Append(wd, [week_num |-> n,
                                       learning_goal |-> r.week_goal,
                                       chapters |-> <<>>])]
    ELSE [outcome |-> "ok", current_week |-> cw, weeks_data |-> wd]

\* "Initialize week if new": the week block of one loop iteration
WeekStep(wd, cw, r) ==
    IF Truthy(r.week_num) /\ ~CellEqCursor(r.week_num, cw)
    THEN IF ~Coercible(r.week_num)
         THEN [outcome |-> "skip", current_week |-> cw, weeks_data |-> wd]
         ELSE LET n == CoerceInt(r.week_num)
              IN  [outcome |-> "ok",
                   current_week |-> <<n>>,
                   weeks_data |->
                      IF HasWeek(wd, n) THEN wd
                      ELSE Append(wd, [week_num |-> n,
                                       learning_goal |-> r.week_goal,
                                       chapters |-> <<>>])]
    ELSE [outcome |-> "ok", current_week |-> cw, weeks_data |-> wd]

\* weeks_data[current_week]['chapters'].append({...})
AppendChapter(wd, n, ch) ==
    [wd EXCEPT ![WeekIndex(wd, n)].chapters = Append(@, ch)]

\* "Initialize chapter if new": the chapter block of one loop iteration.
\* weeks_data[None] raises KeyError, which the outer handler turns into
\* sys.exit(1): outcome "error".
ChapterStep(wd, cw, cc, r) ==
    IF Truthy(r.chapter_num) /\ ~CellEqCursor(r.chapter_num, cc)
    THEN IF ~Coercible(r.chapter_num)
         THEN [outcome |-> "skip", current_chapter |-> cc, weeks_data |-> wd]
         ELSE LET n == CoerceInt(r.chapter_num)
              IN  IF cw = <<>>
                  THEN [outcome |-> "error", current_chapter |-> <<n>>,
                        weeks_data |-> wd]
                  ELSE [outcome |-> "ok", current_chapter |-> <<n>>,
                        weeks_data |->
                           AppendChapter(wd, cw[1],
                              [chapter_num |-> n,
                               title |-> r.chapter_title,
                               learning_goals |-> r.chapter_goals,
                               lessons |-> <<>>])]
    ELSE [outcome |-> "ok", current_chapter |-> cc, weeks_data |-> wd]

\* "if current_week and weeks_data[current_week]['chapters']"
CanAttach(wd, cw) ==
    /\ cw # <<>>
    /\ cw[1] # 0
    /\ wd[WeekIndex(wd, cw[1])].chapters # <<>>

\* variant: the lesson goes to the first chapter of the week, not the last
LessonStep_FirstChapter(wd, cw, r) ==
    IF CanAttach(wd, cw)
    THEN LET w == WeekIndex(wd, cw[1])
         IN  [wd EXCEPT ![w].chapters[1].lessons =
                 Append(@, [title |-> r.lesson_title,
                            learning_outcomes |-> r.mastery_outcome,
                            time_minutes |-> r.time_to_complete])]
    ELSE wd

\* "Add lesson to current chapter"
LessonStep(wd, cw, r) ==
    IF CanAttach(wd, cw)
    THEN LET w == WeekIndex(wd, cw[1])
             c == Len(wd[w].chapters)
         IN  [wd EXCEPT ![w].chapters[c].lessons =
                 Append(@, [title |-> r.lesson_title,
                            learning_outcomes |-> r.mastery_outcome,
                            time_minutes |-> r.time_to_complete])]
    ELSE wd

\* One iteration of the row loop: the state after the row, as a record
RowResult(wd, cw, cc, r) ==
    IF r.lesson_title = <<>>
    THEN [pc |-> "reading", current_week |-> cw, current_chapter |-> cc,
          weeks_data |-> wd]
    ELSE LET ws == WeekStep(wd, cw, r)
         IN  IF ws.outcome = "skip"
             THEN [pc |-> "reading", current_week |-> cw,
                   current_chapter |-> cc, weeks_data |-> wd]
             ELSE LET cs == ChapterStep(ws.weeks_data, ws.current_week, cc, r)
                  IN  CASE cs.outcome = "skip" ->
                             [pc |-> "reading",
                              current_week |-> ws.current_week,
                              current_chapter |-> cc,
                              weeks_data |-> ws.weeks_data]
                        [] cs.outcome = "error" ->
                             [pc |-> "exited",
                              current_week |-> ws.current_week,
                              current_chapter |-> cs.current_chapter,
                              weeks_data |-> ws.weeks_data]
                        [] OTHER ->
                             [pc |-> "reading",
                              current_week |-> ws.current_week,
                              current_chapter |-> cs.current_chapter,
                              weeks_data |->
                                 LessonStep(cs.weeks_data, ws.current_week, r)]

(***************************************************************************)
(* Configuration constants of xlsx_to_maestro.py.  The two instruction     *)
(* templates are fixed texts that the code only ever concatenates in       *)
(* front of other text: each is kept as one named element.                 *)
(***************************************************************************)
SKIP_LESSON_KEYWORDS ==
    << <<"C","l","o","s","i","n","g"," ","s","e","s","s","i","o","n">>,
       <<"O","p","e","n","i","n","g"," ","s","e","s","s","i","o","n">>,
       <<"S","y","n","c"," ","S","e","s","s","i","o","n">>,
       <<"W","e","e","k","l","y"," ","R","e","v","i","e","w">> >>
PRACTICE_SESSION_KEYWORDS ==
    << <<"P","r","a","c","t","i","c","e"," ","L","e","s","s","o","n">>,
       <<"P","r","a","c","t","i","c","e"," ","S","e","s","s","i","o","n">> >>
THEORY_PRACTICE_KEYWORD == <<"T","h","e","o","r","y"," ","P","r","a","c","t","i","c","e"," ","L","e","s","s","o","n">>
PRACTICE_TEACHING_INSTRUCTIONS == <<"PRACTICE_TEACHING_INSTRUCTIONS">>
THEORY_PRACTICE_TEACHING_INSTRUCTIONS == <<"THEORY_PRACTICE_TEACHING_INSTRUCTIONS">>
DEFAULT_TEACHING_INSTRUCTIONS == <<>>
DEFAULT_REQUIRED_PLUGINS == << <<"c","o","d","e","-","e","d","i","t","o","r">> >>
\* the dict in insertion order: key, prefix text
LESSON_TITLE_PREFIXES ==
    << [key |-> THEORY_PRACTICE_KEYWORD, text |-> <<"BOOKS", " ">>],
       [key |-> PRACTICE_SESSION_KEYWORDS[1], text |-> <<"GEAR", " ">>],
       [key |-> PRACTICE_SESSION_KEYWORDS[2], text |-> <<"GEAR", " ">>] >>
\* the character class of _normalize_dashes: U+2014, U+2013, U+2212,
\* U+2010, U+2011, U+2012, U+2015
DashVariants ==
    {"EM_DASH", "EN_DASH", "MINUS_SIGN", "HYPHEN", "NB_HYPHEN", "FIGURE_DASH",
     "HORIZONTAL_BAR"}

(***************************************************************************)
(* The helpers of XLSXToMaestroConverter.                                  *)
(***************************************************************************)
\* variant: the keyword test without .lower()
_should_skip_lesson_CaseSensitive(lesson_title) ==
    IF lesson_title = <<>> THEN TRUE
    ELSE \E i \in 1..Len(SKIP_LESSON_KEYWORDS) :
            Contains(lesson_title, SKIP_LESSON_KEYWORDS[i])

_should_skip_lesson(lesson_title) ==
    IF lesson_title = <<>> THEN TRUE
    ELSE \E i \in 1..Len(SKIP_LESSON_KEYWORDS) :
            Contains(Lower(lesson_title), Lower(SKIP_LESSON_KEYWORDS[i]))

_is_practice_session(lesson_title) ==
    IF lesson_title = <<>> THEN FALSE
    ELSE IF Contains(Lower(lesson_title), Lower(THEORY_PRACTICE_KEYWORD))
    THEN FALSE
    ELSE \E i \in 1..Len(PRACTICE_SESSION_KEYWORDS) :
            Contains(Lower(lesson_title), Lower(PRACTICE_SESSION_KEYWORDS[i]))

_is_theory_practice_session(lesson_title) ==
    IF lesson_title = <<>> THEN FALSE
    ELSE Contains(Lower(lesson_title), Lower(THEORY_PRACTICE_KEYWORD))

\* text.split(sep): the list of parts, never empty
RECURSIVE Split(_, _)
Split(text, sep) ==
    LET i == Find(text, <<sep>>)
    IN  IF i = -1 THEN <<text>>
        ELSE <<SubSeq(text, 1, i)>> \o Split(SubSeq(text, i + 2, Len(text)), sep)

\* variant: the empty parts are not filtered out
_split_mastery_outcomes_KeepEmpty(outcomes) ==
    IF outcomes = <<>> THEN <<>>
    ELSE LET parts == Split(outcomes, ";")
         IN  [i \in 1..Len(parts) |-> Strip(parts[i])]

_split_mastery_outcomes(outcomes) ==
    IF outcomes = <<>> THEN <<>>
    ELSE LET parts == Split(outcomes, ";")
             split_outcomes == [i \in 1..Len(parts) |-> Strip(parts[i])]
         IN  SelectSeq(split_outcomes, LAMBDA o : o # <<>>)

\* variant: text.rsplit(':', 1), the split at the last colon
SplitFirstColon_Last(text) ==
    IF ~Contains(text, <<":">>) THEN <<text>>
    ELSE LET i == CHOOSE k \in 1..Len(text) :
                     /\ text[k] = ":"
                     /\ \A j \in (k + 1)..Len(text) : text[j] # ":"
         IN  <<SubSeq(text, 1, i - 1), SubSeq(text, i + 1, Len(text))>>

\* text.split(':', 1)
SplitFirstColon(text) ==
    LET i == Find(text, <<":">>)
    IN  IF i = -1 THEN <<text>>
        ELSE <<SubSeq(text, 1, i), SubSeq(text, i + 2, Len(text))>>

_extract_week_title(learning_goal) ==
    IF learning_goal = <<>> THEN <<>>
    ELSE Strip(SplitFirstColon(learning_goal)[1])

_extract_week_description(learning_goal) ==
    IF learning_goal = <<>> THEN <<>>
    ELSE LET parts == SplitFirstColon(learning_goal)
         IN  IF Len(parts) > 1 THEN Strip(parts[2]) ELSE <<>>

\* variant: "if prefix_key in lesson_title", a match anywhere in the title
_apply_lesson_prefix_Anywhere(lesson_title) ==
    IF lesson_title = <<>> THEN lesson_title
    ELSE IF \E i \in 1..Len(LESSON_TITLE_PREFIXES) :
               Contains(lesson_title, LESSON_TITLE_PREFIXES[i].key)
    THEN LET first == CHOOSE i \in 1..Len(LESSON_TITLE_PREFIXES) :
                 /\ Contains(lesson_title, LESSON_TITLE_PREFIXES[i].key)
                 /\ \A j \in 1..(i - 1) :
                       ~Contains(lesson_title, LESSON_TITLE_PREFIXES[j].key)
         IN  LESSON_TITLE_PREFIXES[first].text \o lesson_title
    ELSE lesson_title

_apply_lesson_prefix(lesson_title) ==
    IF lesson_title = <<>> THEN lesson_title
    ELSE IF \E i \in 1..Len(LESSON_TITLE_PREFIXES) :
               StartsWith(lesson_title, LESSON_TITLE_PREFIXES[i].key)
    THEN LET first == CHOOSE i \in 1..Len(LESSON_TITLE_PREFIXES) :
                 /\ StartsWith(lesson_title, LESSON_TITLE_PREFIXES[i].key)
                 /\ \A j \in 1..(i - 1) :
                       ~StartsWith(lesson_title, LESSON_TITLE_PREFIXES[j].key)
         IN  LESSON_TITLE_PREFIXES[first].text \o lesson_title
    ELSE lesson_title

\* variant: the class [\.\)\-:] without \s
IsNumberSeparator_NoSpace(c) == c \in {".", ")", "-", ":"}

\* [\.\)\-:\s]
IsNumberSeparator(c) == c \in {".", ")", "-", ":"} \/ IsSpace(c)

\* variant: \d in place of \d+, a single leading digit
DigitRun_One(s) == IF s # <<>> /\ IsDigit(Head(s)) THEN 1 ELSE 0

\* the length of the match of \d+ at the start of s (0: no match)
RECURSIVE DigitRun(_)
DigitRun(s) == IF s # <<>> /\ IsDigit(Head(s)) THEN 1 + DigitRun(Tail(s)) ELSE 0

\* the length of the match of [\.\)\-:\s]+\s* at the start of s (0: no match)
RECURSIVE SeparatorRun(_)
SeparatorRun(s) ==
    IF s # <<>> /\ IsNumberSeparator(Head(s)) THEN 1 + SeparatorRun(Tail(s)) ELSE 0

\* re.sub(r'^\d+[\.\)\-:\s]+\s*', '', title), then "cleaned if cleaned else title"
_strip_leading_number(ttl) ==
    IF ttl = <<>> THEN ttl
    ELSE LET nd == DigitRun(ttl)
             rest == SubSeq(ttl, nd + 1, Len(ttl))
             ns == SeparatorRun(rest)
             cleaned == IF nd >= 1 /\ ns >= 1
                        THEN SubSeq(rest, ns + 1, Len(rest))
                        ELSE ttl
         IN  IF cleaned # <<>> THEN cleaned ELSE ttl

\* variant: re.sub(..., count=1), only the first dash is replaced
_normalize_dashes_FirstOnly(text) ==
    [i \in 1..Len(text) |->
        IF text[i] \in DashVariants /\ \A j \in 1..(i - 1) : text[j] \notin DashVariants
        THEN "-" ELSE text[i]]

_normalize_dashes(text) ==
    [i \in 1..Len(text) |-> IF text[i] \in DashVariants THEN "-" ELSE text[i]]

(***************************************************************************)
(* generate_maestro_json.                                                  *)
(***************************************************************************)
\* The category the exporter's control flow gives a title: the skip test
\* first, then "if is_theory_practice", "elif is_practice", "else".
Classify(lesson_title) ==
    IF _should_skip_lesson(lesson_title) THEN "Skip"
    ELSE IF _is_theory_practice_session(lesson_title) THEN "TheoryPractice"
    ELSE IF _is_practice_session(lesson_title) THEN "Practice"
    ELSE "Standard"

\* "if 'Output:' in outcomes_text: ... elif 'output:' in outcomes_text: ..."
StripOutputPart(outcomes_text) ==
    IF Contains(outcomes_text, <<"O","u","t","p","u","t",":">>)
    THEN Strip(SubSeq(outcomes_text, 1, Find(outcomes_text, <<"O","u","t","p","u","t",":">>)))
    ELSE IF Contains(outcomes_text, <<"o","u","t","p","u","t",":">>)
    THEN Strip(SubSeq(outcomes_text, 1, Find(outcomes_text, <<"o","u","t","p","u","t",":">>)))
    ELSE outcomes_text

\* lesson_title after the three title transforms, in the exporter's order
ExportTitle(original_lesson_title) ==
    _apply_lesson_prefix(_normalize_dashes(_strip_leading_number(original_lesson_title)))

\* lesson_obj for a lesson that is not skipped
LessonObj(lesson) ==
    LET cat == Classify(lesson.title)
        split == _split_mastery_outcomes(lesson.learning_outcomes)
        mastery_outcomes == [i \in 1..Len(split) |-> _normalize_dashes(split[i])]
    IN  [title |-> ExportTitle(lesson.title),
         masteryOutcomes |->
            IF cat \in {"TheoryPractice", "Practice"} THEN <<>> ELSE mastery_outcomes,
         teachingInstructions |->
            CASE cat = "TheoryPractice" ->
                    THEORY_PRACTICE_TEACHING_INSTRUCTIONS
                       \o _normalize_dashes(StripOutputPart(lesson.learning_outcomes))
              [] cat = "Practice" ->
                    PRACTICE_TEACHING_INSTRUCTIONS
                       \o _normalize_dashes(lesson.learning_outcomes)
              [] OTHER -> DEFAULT_TEACHING_INSTRUCTIONS,
         requiredPlugins |-> DEFAULT_REQUIRED_PLUGINS]

\* variant: "break" instead of "continue" at a skipped lesson
RECURSIVE ChapterLessonObjs_Break(_)
ChapterLessonObjs_Break(ls) ==
    IF ls = <<>> THEN <<>>
    ELSE IF _should_skip_lesson(Head(ls).title)
    THEN <<>>
    ELSE <<LessonObj(Head(ls))>> \o ChapterLessonObjs_Break(Tail(ls))

\* "for lesson in chapter['lessons']": skipped lessons are passed over
RECURSIVE ChapterLessonObjs(_)
ChapterLessonObjs(ls) ==
    IF ls = <<>> THEN <<>>
    ELSE IF _should_skip_lesson(Head(ls).title)
    THEN ChapterLessonObjs(Tail(ls))
    ELSE <<LessonObj(Head(ls))>> \o ChapterLessonObjs(Tail(ls))

\* "for chapter in week_info['chapters']": one flat list per week
RECURSIVE WeekLessonObjs(_)
WeekLessonObjs(chapters) ==
    IF chapters = <<>> THEN <<>>
    ELSE ChapterLessonObjs(Head(chapters).lessons) \o WeekLessonObjs(Tail(chapters))

\* str(n) for n >= 0
RECURSIVE IntToText(_)
IntToText(n) ==
    IF n < 10 THEN <<Digits[n + 1]>>
    ELSE IntToText(n \div 10) \o <<Digits[(n % 10) + 1]>>

\* variant: the week number is put in front of every unit title
UnitObj_NumberedTitle(week_info) ==
    LET week_title == _extract_week_title(week_info.learning_goal)
    IN  [title |-> <<"W","E","E","K"," ">> \o IntToText(week_info.week_num)
                      \o week_title,
         description |-> _extract_week_description(week_info.learning_goal),
         lessons |-> WeekLessonObjs(week_info.chapters)]

\* unit_obj of one week
UnitObj(week_info) ==
    LET week_title == _extract_week_title(week_info.learning_goal)
    IN  [title |-> IF week_title # <<>> THEN week_title
                   ELSE <<"W","E","E","K"," ">> \o IntToText(week_info.week_num),
         description |-> _extract_week_description(week_info.learning_goal),
         lessons |-> WeekLessonObjs(week_info.chapters)]

\* sorted(keys): repeatedly take the smallest remaining key
RECURSIVE SortedSeq(_)
SortedSeq(keys) ==
    IF keys = {} THEN <<>>
    ELSE LET m == CHOOSE k \in keys : \A j \in keys : k <= j
         IN  <<m>> \o SortedSeq(keys \ {m})

\* variant: "for week_num in weeks_data.keys()", the dict's own order
UnitOrder_Insertion(wd) == [i \in 1..Len(wd) |-> wd[i].week_num]

\* "for week_num in sorted(weeks_data.keys())"
UnitOrder(wd) == SortedSeq({wd[i].week_num : i \in 1..Len(wd)})

\* the "units" list of the document
BuildUnits(wd) ==
    LET order == UnitOrder(wd)
    IN  [i \in 1..Len(order) |-> UnitObj(wd[WeekIndex(wd, order[i])])]

(***************************************************************************)
(* The worksheet rows fed to read_xlsx: every combination of the cell      *)
(* values below.  A text cell that is None or "" is <<>> (both are falsy   *)
(* and both are stored as "").                                             *)
(***************************************************************************)
WeekCells ==
    {NoneCell, NumCell(1, 0), StrCell(<<"2">>), StrCell(<<"x">>)}
ChapterCells ==
    {NoneCell, NumCell(1, 0), StrCell(<<"1">>), StrCell(<<"1",".","2">>),
     StrCell(<<"x">>)}
\* the week-goal cell that accompanies a week cell
WeekGoalOf(cell) ==
    CASE cell = NumCell(1, 0) -> <<"P","y",":"," ","a",":","b">>
      [] cell = StrCell(<<"2">>) -> <<"W","e","b">>
      [] OTHER -> <<>>
\* the chapter-title and chapter-goals cells that accompany a chapter cell
ChapterTextOf(cell) ==
    CASE cell \in {NumCell(1, 0), StrCell(<<"1">>)} ->
            [title |-> <<"T">>, goals |-> <<"g">>]
      [] cell = StrCell(<<"1",".","2">>) -> [title |-> <<"U">>, goals |-> <<>>]
      [] OTHER -> [title |-> <<>>, goals |-> <<>>]
LessonCells ==
    {[title |-> <<>>, outcome |-> <<>>],
     [title |-> <<"I","n","t","r","o">>, outcome |-> <<"a",";"," ","b">>],
     [title |-> <<"L","o","o","p","s">>, outcome |-> <<>>],
     [title |-> <<"S","y","n","c"," ","S","e","s","s","i","o","n">>, outcome |-> <<"A","s","k">>]}
Rows ==
    {[week_num |-> w, week_goal |-> WeekGoalOf(w),
      chapter_num |-> c, chapter_goals |-> ChapterTextOf(c).goals,
      chapter_title |-> ChapterTextOf(c).title,
      lesson_title |-> l.title, time_to_complete |-> <<>>,
      mastery_outcome |-> l.outcome] :
        w \in WeekCells, c \in ChapterCells, l \in LessonCells}

InitXlsx ==
    /\ weeks_data = <<>>
    /\ current_week = <<>>
    /\ current_chapter = <<>>
    /\ nrows = 0
    /\ pc = "reading"
    /\ units = <<>>

IdleDist ==
    /\ lessons = <<>>
    /\ distribution = <<>>
    /\ lesson_index = 0
    /\ week = 0
    /\ dpc = "idle"

IdleClass ==
    /\ title = <<>>
    /\ category = ""
    /\ cpc = "idle"

IdleLesson ==
    /\ the_lesson = <<>>
    /\ lesson_obj = <<>>
    /\ lpc = "idle"

IdleUnit ==
    /\ the_week = <<>>
    /\ the_title = <<>>
    /\ unit_description = <<>>
    /\ unit_obj = <<>>
    /\ upc = "idle"

IdleText ==
    /\ the_text = <<>>
    /\ result = <<>>
    /\ result2 = <<>>
    /\ tpc = "idle"

IdleHelpers == IdleLesson /\ IdleUnit /\ IdleText

IdleParse ==
    /\ ai_content = <<>>
    /\ line_no = 0
    /\ current_lesson = <<>>
    /\ collecting_outcomes = FALSE
    /\ outcomes_lines = <<>>
    /\ parsed_lessons = <<>>
    /\ ppc = "idle"

IdlePractice ==
    /\ week_lessons = <<>>
    /\ num_sessions_per_chapter = <<>>
    /\ practice_content = <<>>
    /\ practice_line = 0
    /\ all_practice_sessions = <<>>
    /\ current_chapter_sessions = <<>>
    /\ current_session = <<>>
    /\ week_lessons_with_practice = <<>>
    /\ api_calls = 0
    /\ gpc = "idle"

IdleSyllabus ==
    /\ week_num = 0
    /\ sheet_rows = <<>>
    /\ generated_weeks = <<>>
    /\ request_log = <<>>
    /\ spc = "idle"

IdleAdjust ==
    /\ estimated_times = <<>>
    /\ adjusted_times = <<>>
    /\ apc = "idle"

IdleGenerator == IdleParse /\ IdlePractice /\ IdleSyllabus /\ IdleAdjust

\* read_xlsx, one iteration of "for row in worksheet.iter_rows(...)"
ReadRow(r) ==
    /\ pc = "reading"
    /\ nrows < MaxRows
    /\ LET res == RowResult(weeks_data, current_week, current_chapter, r)
       IN  /\ weeks_data' = res.weeks_data
           /\ current_week' = res.current_week
           /\ current_chapter' = res.current_chapter
           /\ pc' = res.pc
    /\ nrows' = nrows + 1
    /\ UNCHANGED <<units, distVars, classVars, helperVars, generatorVars>>

\* read_xlsx, after the last row: "return weeks_data"
ReadReturn ==
    /\ pc = "reading"
    /\ pc' = "returned"
    /\ UNCHANGED <<weeks_data, current_week, current_chapter, nrows, units,
                   distVars, classVars, helperVars, generatorVars>>

\* generate_maestro_json(weeks_data, ...)
GenerateMaestroJson ==
    /\ pc = "returned"
    /\ units' = BuildUnits(weeks_data)
    /\ pc' = "exported"
    /\ UNCHANGED <<weeks_data, current_week, current_chapter, nrows,
                   distVars, classVars, helperVars, generatorVars>>

Init == InitXlsx /\ IdleDist /\ IdleClass /\ IdleHelpers /\ IdleGenerator

Next ==
    \/ \E r \in Rows : ReadRow(r)
    \/ ReadReturn
    \/ GenerateMaestroJson

Spec == Init /\ [][Next]_vars

(***************************************************************************)
(* Properties of read_xlsx.                                                *)
(***************************************************************************)
RECURSIVE SumLens(_)
SumLens(chapters) ==
    IF chapters = <<>> THEN 0
    ELSE Len(Head(chapters).lessons) + SumLens(Tail(chapters))

RECURSIVE TotalLessons(_)
TotalLessons(wd) ==
    IF wd = <<>> THEN 0 ELSE SumLens(Head(wd).chapters) + TotalLessons(Tail(wd))

ChaptersOf(wd, n) == IF HasWeek(wd, n) THEN wd[WeekIndex(wd, n)].chapters ELSE <<>>

\* the row has a lesson title and is skipped neither for an uncoercible
\* week or chapter cell nor for want of an established week
CountedRow(r) ==
    /\ r.lesson_title # <<>>
    /\ WeekStep(weeks_data, current_week, r).outcome # "skip"
    /\ ~(Truthy(r.chapter_num) /\ ~CellEqCursor(r.chapter_num, current_chapter)
            /\ ~Coercible(r.chapter_num))
    /\ WeekStep(weeks_data, current_week, r).current_week # <<>>

RowLesson(r) ==
    [title |-> r.lesson_title, learning_outcomes |-> r.mastery_outcome,
     time_minutes |-> r.time_to_complete]

ChapterHeads(chapters) ==
    [i \in 1..Len(chapters) |->
        <<chapters[i].chapter_num, chapters[i].title, chapters[i].learning_goals>>]

\* C2: a row of the same week that carries the current chapter's number
\* again, as a number or as numeric text, creates no chapter and leaves the
\* existing chapters' number, title and goals as they were.
C2_SameChapterNumberCreatesNoChapter ==
    [][\A r \in Rows :
          (/\ ReadRow(r)
           /\ r.lesson_title # <<>>
           /\ current_week # <<>>
           /\ current_week' = current_week
           /\ current_chapter # <<>>
           /\ Truthy(r.chapter_num)
           /\ Coercible(r.chapter_num)
           /\ CoerceInt(r.chapter_num) = current_chapter[1]
           /\ \E i \in 1..Len(ChaptersOf(weeks_data, current_week[1])) :
                 ChaptersOf(weeks_data, current_week[1])[i].chapter_num
                    = current_chapter[1])
          => ChapterHeads(ChaptersOf(weeks_data', current_week[1]))
                = ChapterHeads(ChaptersOf(weeks_data, current_week[1]))]_vars

\* C3: a row that moves to another week and carries a coercible chapter
\* number creates a chapter with that number in the new week and attaches
\* its lesson to it, whatever the number.
C3_NewWeekRowCreatesItsChapter ==
    [][\A r \in Rows :
          (/\ ReadRow(r)
           /\ r.lesson_title # <<>>
           /\ current_week' # <<>>
           /\ current_week' # current_week
           /\ Truthy(r.chapter_num)
           /\ Coercible(r.chapter_num))
          => LET before == ChaptersOf(weeks_data, current_week'[1])
                 after == ChaptersOf(weeks_data', current_week'[1])
             IN  /\ Len(after) = Len(before) + 1
                 /\ after[Len(after)].chapter_num = CoerceInt(r.chapter_num)
                 /\ after[Len(after)].lessons = <<RowLesson(r)>>]_vars

\* C4: in the model read_xlsx returns, no two chapters of a week carry the
\* same chapter number.
C4_ChapterNumbersUniqueInWeek ==
    pc = "returned" =>
        \A w \in 1..Len(weeks_data) :
            \A i, j \in 1..Len(weeks_data[w].chapters) :
                i # j => weeks_data[w].chapters[i].chapter_num
                            # weeks_data[w].chapters[j].chapter_num

\* the row is counted and, once its chapter cell is handled, the current
\* week (not week 0) has a chapter; res is the state after the row
AttachableRow(r, res) ==
    /\ CountedRow(r)
    /\ res.current_week[1] # 0
    /\ ChaptersOf(res.weeks_data, res.current_week[1]) # <<>>

Rank(wd, n) == 1 + Cardinality({i \in 1..Len(wd) : wd[i].week_num < n})

\* C5: the units are in the order in which the weeks were first seen.
C5_UnitsInInsertionOrder ==
    pc = "exported" =>
        units = [i \in 1..Len(weeks_data) |-> UnitObj(weeks_data[i])]

\* C5 (amended): the units are in ascending order of week number.
C5_UnitsInAscendingWeekOrder ==
    pc = "exported" =>
        /\ Len(units) = Len(weeks_data)
        /\ \A i \in 1..Len(weeks_data) :
              units[Rank(weeks_data, weeks_data[i].week_num)]
                 = UnitObj(weeks_data[i])

\* week 2 was seen before week 1 and the two units differ
C5_Witness ==
    /\ pc = "exported"
    /\ Len(weeks_data) = 2
    /\ weeks_data[1].week_num > weeks_data[2].week_num
    /\ units[1] # units[2]

RECURSIVE FlatLessons(_)
FlatLessons(chapters) ==
    IF chapters = <<>> THEN <<>>
    ELSE Head(chapters).lessons \o FlatLessons(Tail(chapters))

NotSkip(lesson) == Classify(lesson.title) # "Skip"

\* C6: one unit per week, whose lessons are, in order, one entry for each
\* lesson of the week's chapters that is not classified Skip.
C6_UnitKeepsExactlyNonSkipLessons ==
    pc = "exported" =>
        /\ Len(units) = Len(weeks_data)
        /\ \A i \in 1..Len(weeks_data) :
              LET kept == SelectSeq(FlatLessons(weeks_data[i].chapters), NotSkip)
                  unit == units[Rank(weeks_data, weeks_data[i].week_num)]
              IN  unit.lessons = [k \in 1..Len(kept) |-> LessonObj(kept[k])]

\* a week exported with a Skip lesson between two different kept lessons
C6_Witness ==
    /\ pc = "exported"
    /\ \E i \in 1..Len(weeks_data) :
          LET flat == FlatLessons(weeks_data[i].chapters)
          IN  /\ Len(flat) = 3
              /\ NotSkip(flat[1]) /\ ~NotSkip(flat[2]) /\ NotSkip(flat[3])
              /\ flat[1] # flat[3]
              /\ Len(units[Rank(weeks_data, weeks_data[i].week_num)].lessons) = 2

(***************************************************************************)
(* Rows that read_xlsx skips.                                              *)
(***************************************************************************)
\* the row has a lesson title and a week cell that is non-empty, differs
\* from the week cursor and cannot be coerced to a number
UncoercibleWeekRow(r) ==
    /\ r.lesson_title # <<>>
    /\ Truthy(r.week_num)
    /\ ~CellEqCursor(r.week_num, current_week)
    /\ ~Coercible(r.week_num)

\* C11: whatever row is read next, if its week cell is non-empty, differs
\* from the week cursor and cannot be coerced, the row changes neither the
\* week cursor nor the chapter cursor nor the model, and reading goes on.
C11_UncoercibleWeekRowChangesNothing ==
    (pc = "reading" /\ nrows < MaxRows) =>
        \A r \in Rows :
            UncoercibleWeekRow(r) =>
                LET res == RowResult(weeks_data, current_week, current_chapter, r)
                IN  /\ res.pc = "reading"
                    /\ res.current_week = current_week
                    /\ res.current_chapter = current_chapter
                    /\ res.weeks_data = weeks_data

\* a week with a chapter and a lesson is established, a row is still to
\* come, and a row with an uncoercible week cell and a new, coercible
\* chapter cell leaves everything as it is
C11_Witness ==
    /\ pc = "reading"
    /\ nrows < MaxRows
    /\ current_week # <<>>
    /\ current_chapter # <<>>
    /\ TotalLessons(weeks_data) >= 1
    /\ \E r \in Rows :
          /\ UncoercibleWeekRow(r)
          /\ Coercible(r.chapter_num)
          /\ ~CellEqCursor(r.chapter_num, current_chapter)
          /\ RowResult(weeks_data, current_week, current_chapter, r)
                = [pc |-> "reading", current_week |-> current_week,
                   current_chapter |-> current_chapter,
                   weeks_data |-> weeks_data]

\* C12: a row whose chapter cell is non-empty and cannot be coerced leaves
\* the week cursor, the chapter cursor and the weeks and chapters of the
\* model as they were, whatever its week cell holds.
C12_UncoercibleChapterRowChangesNothing ==
    [][\A r \in Rows :
          (/\ ReadRow(r)
           /\ r.lesson_title # <<>>
           /\ Truthy(r.chapter_num)
           /\ ~Coercible(r.chapter_num))
          => /\ pc' = "reading"
             /\ current_week' = current_week
             /\ current_chapter' = current_chapter
             /\ weeks_data' = weeks_data]_vars

\* C13: a row with a lesson title that comes while no week is established
\* (the week cursor is unset and the row's own week cell is empty) adds
\* nothing to the model and does not end the reading, whatever its chapter
\* cell holds.
C13_RowBeforeAnyWeekIsSkipped ==
    [][\A r \in Rows :
          (/\ ReadRow(r)
           /\ r.lesson_title # <<>>
           /\ current_week = <<>>
           /\ ~Truthy(r.week_num))
          => /\ pc' = "reading"
             /\ weeks_data' = weeks_data]_vars

(***************************************************************************)
(* Classification of a title on its own.  Titles are built by joining up   *)
(* to MaxFragments fragments; a lesson's title is never empty.             *)
(***************************************************************************)
TitleFragments ==
    { <<"S","y","n","c"," ","S","e","s","s","i","o","n">>,
      <<"w","e","e","k","l","y"," ","r","e","v","i","e","w">>,
      <<"O","P","E","N","I","N","G"," ","S","E","S","S","I","O","N">>,
      <<"P","r","a","c","t","i","c","e"," ","L","e","s","s","o","n">>,
      <<"p","r","a","c","t","i","c","e"," ","s","e","s","s","i","o","n">>,
      <<"T","h","e","o","r","y"," ">>,
      <<"T","H","E","O","R","Y"," ","P","R","A","C","T","I","C","E"," ","L","E","S","S","O","N">>,
      <<"I","n","t","r","o">>,
      <<":"," ">>,
      <<"S","e","s","s","i","o","n">> }

RECURSIVE JoinedTitles(_)
JoinedTitles(n) ==
    IF n = 1 THEN TitleFragments
    ELSE JoinedTitles(n - 1)
            \cup {a \o b : a \in JoinedTitles(n - 1), b \in TitleFragments}

InitClassify ==
    /\ title \in JoinedTitles(MaxFragments)
    /\ category = ""
    /\ cpc = "ready"

IdleXlsx ==
    /\ weeks_data = <<>>
    /\ current_week = <<>>
    /\ current_chapter = <<>>
    /\ nrows = 0
    /\ pc = "idle"
    /\ units = <<>>

\* the exporter classifies one title
ClassifyTitle ==
    /\ cpc = "ready"
    /\ category' = Classify(title)
    /\ cpc' = "done"
    /\ UNCHANGED <<title, xlsxVars, distVars, helperVars, generatorVars>>

InitC == InitClassify /\ IdleXlsx /\ IdleDist /\ IdleHelpers /\ IdleGenerator

NextClassify == ClassifyTitle

SpecClassify == InitC /\ [][NextClassify]_vars

\* keyword occurs in text, letters compared without regard to case
ContainsCI(text, keyword) ==
    \E i \in 0..(Len(text) - Len(keyword)) :
        \A j \in 1..Len(keyword) : LowerChar(text[i + j]) = LowerChar(keyword[j])

HasSkipKeyword(t) ==
    \E i \in 1..Len(SKIP_LESSON_KEYWORDS) : ContainsCI(t, SKIP_LESSON_KEYWORDS[i])
HasTheoryKeyword(t) == ContainsCI(t, THEORY_PRACTICE_KEYWORD)
HasPracticeKeyword(t) ==
    \E i \in 1..Len(PRACTICE_SESSION_KEYWORDS) :
        ContainsCI(t, PRACTICE_SESSION_KEYWORDS[i])

\* C7: classification is by case-insensitive substring match in strict
\* precedence: Skip, then TheoryPractice, then Practice, else Standard.
C7_ClassificationPrecedence ==
    cpc = "done" =>
        category = IF HasSkipKeyword(title) THEN "Skip"
                   ELSE IF HasTheoryKeyword(title) THEN "TheoryPractice"
                   ELSE IF HasPracticeKeyword(title) THEN "Practice"
                   ELSE "Standard"

\* a title with a skip keyword in another case and a practice keyword
C7_Witness ==
    /\ cpc = "done"
    /\ HasSkipKeyword(title)
    /\ ~\E i \in 1..Len(SKIP_LESSON_KEYWORDS) : Contains(title, SKIP_LESSON_KEYWORDS[i])
    /\ HasPracticeKeyword(title)
    /\ category = "Skip"

(***************************************************************************)
(* SyllabusGenerator.distribute_lessons.  The function never looks inside  *)
(* a lesson: lessons are numbered 1..n so that a lost, repeated or moved   *)
(* lesson shows.                                                           *)
(***************************************************************************)
NUM_OF_WEEKS == 4
NUM_OF_CHAPTERS_PER_WEEK == 5

\* variant: "week < remainder"
WeekLessonCount_StrictLess(total_lessons, wk) ==
    (total_lessons \div NUM_OF_WEEKS)
        + (IF wk < total_lessons % NUM_OF_WEEKS THEN 1 ELSE 0)

\* week_lesson_count = lessons_per_week + (1 if week <= remainder else 0)
WeekLessonCount(total_lessons, wk) ==
    (total_lessons \div NUM_OF_WEEKS)
        + (IF wk <= total_lessons % NUM_OF_WEEKS THEN 1 ELSE 0)

\* chapter_lesson_count, for chapter in range(NUM_OF_CHAPTERS_PER_WEEK)
ChapterLessonCount(week_lesson_count, chapter) ==
    (week_lesson_count \div NUM_OF_CHAPTERS_PER_WEEK)
        + (IF chapter < week_lesson_count % NUM_OF_CHAPTERS_PER_WEEK THEN 1 ELSE 0)

\* variant: lessons[lesson_index + 1 : lesson_index + 1 + count]
Slice_OffByOne(list, from, count) ==
    SubSeq(list, from + 2, IF from + 1 + count > Len(list) THEN Len(list)
                           ELSE from + 1 + count)

\* list[from : from + count] with a 0-based from
Slice(list, from, count) ==
    SubSeq(list, from + 1, IF from + count > Len(list) THEN Len(list)
                           ELSE from + count)

\* variant: a chapter that gets no lesson is not appended
RECURSIVE WeekChapters_DropEmpty(_, _, _, _)
WeekChapters_DropEmpty(list, index, week_lesson_count, chapter) ==
    IF chapter >= NUM_OF_CHAPTERS_PER_WEEK THEN <<>>
    ELSE LET n == ChapterLessonCount(week_lesson_count, chapter)
         IN  (IF n = 0 THEN <<>> ELSE <<Slice(list, index, n)>>)
                \o WeekChapters_DropEmpty(list, index + n, week_lesson_count,
                                          chapter + 1)

\* the inner loop from `chapter` on: the chapters appended to week_chapters
RECURSIVE WeekChapters(_, _, _, _)
WeekChapters(list, index, week_lesson_count, chapter) ==
    IF chapter >= NUM_OF_CHAPTERS_PER_WEEK THEN <<>>
    ELSE LET n == ChapterLessonCount(week_lesson_count, chapter)
         IN  <<Slice(list, index, n)>>
                \o WeekChapters(list, index + n, week_lesson_count, chapter + 1)

LessonLists == {[i \in 1..n |-> i] : n \in 0..MaxLessons}

InitDist ==
    /\ lessons \in LessonLists
    /\ distribution = <<>>
    /\ lesson_index = 0
    /\ week = 1
    /\ dpc = "loop"

\* one iteration of "for week in range(1, NUM_OF_WEEKS+1)"
DistributeWeek ==
    /\ dpc = "loop"
    /\ week <= NUM_OF_WEEKS
    /\ LET week_lesson_count == WeekLessonCount(Len(lessons), week)
       IN  /\ distribution' =
                 distribution @@ (week :>
                    WeekChapters(lessons, lesson_index, week_lesson_count, 0))
           /\ lesson_index' = lesson_index + week_lesson_count
    /\ week' = week + 1
    /\ UNCHANGED <<lessons, dpc, xlsxVars, classVars, helperVars, generatorVars>>

\* "return distribution"
DistributeReturn ==
    /\ dpc = "loop"
    /\ week > NUM_OF_WEEKS
    /\ dpc' = "returned"
    /\ UNCHANGED <<lessons, distribution, lesson_index, week, xlsxVars, classVars,
                   helperVars, generatorVars>>

NextDist == DistributeWeek \/ DistributeReturn

InitD == InitDist /\ IdleXlsx /\ IdleClass /\ IdleHelpers /\ IdleGenerator

SpecDist == InitD /\ [][NextDist]_vars

RECURSIVE Concat(_)
Concat(lists) == IF lists = <<>> THEN <<>> ELSE Head(lists) \o Concat(Tail(lists))

\* all chapters of weeks 1..k of d, joined in week order then chapter order
RECURSIVE FlattenWeeks(_, _)
FlattenWeeks(d, k) ==
    IF k = 0 THEN <<>> ELSE FlattenWeeks(d, k - 1) \o Concat(d[k])

\* C8: joining all chapters of all weeks, in order, gives the input list.
C8_FlatteningReproducesInput ==
    dpc = "returned" =>
        /\ DOMAIN distribution = 1..NUM_OF_WEEKS
        /\ FlattenWeeks(distribution, NUM_OF_WEEKS) = lessons

\* a list that does not divide evenly, distributed
C8_Witness ==
    /\ dpc = "returned"
    /\ Len(lessons) = 23
    /\ distribution[4][5] = <<23>>

\* C9: exactly NUM_OF_WEEKS weeks keyed 1..NUM_OF_WEEKS, each with exactly
\* NUM_OF_CHAPTERS_PER_WEEK chapters, for every list length.
C9_FixedGridForAnyLength ==
    dpc = "returned" =>
        /\ DOMAIN distribution = 1..NUM_OF_WEEKS
        /\ \A w \in 1..NUM_OF_WEEKS :
              Len(distribution[w]) = NUM_OF_CHAPTERS_PER_WEEK

\* fewer lessons than weeks: empty chapters and whole empty weeks are there
C9_Witness ==
    /\ dpc = "returned"
    /\ Len(lessons) = 2
    /\ distribution[1] = << <<1>>, <<>>, <<>>, <<>>, <<>> >>
    /\ distribution[NUM_OF_WEEKS] = [c \in 1..NUM_OF_CHAPTERS_PER_WEEK |-> <<>>]

WeekSize(d, w) == Len(Concat(d[w]))

\* C10: quotient/remainder at both levels: weeks 1..(T mod W) get
\* floor(T/W)+1 lessons, the others floor(T/W); in a week of n lessons
\* chapters 1..(n mod C) get floor(n/C)+1, the others floor(n/C).
C10_QuotientRemainderRule ==
    dpc = "returned" =>
        LET T == Len(lessons)
        IN  \A w \in 1..NUM_OF_WEEKS :
               /\ WeekSize(distribution, w)
                     = (T \div NUM_OF_WEEKS)
                          + (IF w <= T % NUM_OF_WEEKS THEN 1 ELSE 0)
               /\ \A c \in 1..NUM_OF_CHAPTERS_PER_WEEK :
                     LET n == WeekSize(distribution, w)
                     IN  Len(distribution[w][c])
                            = (n \div NUM_OF_CHAPTERS_PER_WEEK)
                                 + (IF c <= n % NUM_OF_CHAPTERS_PER_WEEK
                                    THEN 1 ELSE 0)

\* 23 lessons: weeks of 6, 6, 6, 5 and a 6-lesson week split 2, 1, 1, 1, 1
C10_Witness ==
    /\ dpc = "returned"
    /\ Len(lessons) = 23
    /\ [w \in 1..NUM_OF_WEEKS |-> WeekSize(distribution, w)] = <<6, 6, 6, 5>>
    /\ [c \in 1..NUM_OF_CHAPTERS_PER_WEEK |-> Len(distribution[1][c])]
          = <<2, 1, 1, 1, 1>>

(***************************************************************************)
(* Export of one lesson: the body of "for lesson in chapter['lessons']" in *)
(* generate_maestro_json.  The outcomes text is built by joining up to     *)
(* MaxOutcomeParts fragments.                                              *)
(***************************************************************************)
OutcomeFragments ==
    { <<" ","a"," ">>,
      <<"b">>,
      <<";">>,
      <<"EM_DASH">>,
      <<"O","u","t","p","u","t",":">>,
      <<"o","u","t","p","u","t",":">>,
      <<"O","U","T","P","U","T",":">> }

RECURSIVE JoinedOutcomes(_)
JoinedOutcomes(n) ==
    IF n = 0 THEN {<<>>}
    ELSE JoinedOutcomes(n - 1)
            \cup {a \o b : a \in JoinedOutcomes(n - 1), b \in OutcomeFragments}

LessonTitles ==
    { <<"I","n","t","r","o">>,
      <<"4","."," ","P","r","a","c","t","i","c","e"," ","S","e","s","s","i","o","n">>,
      <<"p","r","a","c","t","i","c","e"," ","l","e","s","s","o","n"," ","EM_DASH"," ","x">>,
      <<"T","h","e","o","r","y"," ","P","r","a","c","t","i","c","e"," ","L","e","s","s","o","n">>,
      <<"S","y","n","c"," ","S","e","s","s","i","o","n">>,
      <<"4","."," ","P","r","a","c","t","i","c","e"," ","S","e","s","s","i","o","n",":"," ","B","u","d","g","e","t"," ","A","p","p"," ","EM_DASH"," ","P","a","r","t"," ","1">>,
      <<"M","y"," ","P","r","a","c","t","i","c","e"," ","L","e","s","s","o","n">> }

InitLesson ==
    /\ the_lesson \in {[title |-> t, learning_outcomes |-> o, time_minutes |-> <<>>] :
                          t \in LessonTitles, o \in JoinedOutcomes(MaxOutcomeParts)}
    /\ lesson_obj = <<>>
    /\ lpc = "ready"

\* "if self._should_skip_lesson(original_lesson_title): continue"
SkipLesson ==
    /\ lpc = "ready"
    /\ _should_skip_lesson(the_lesson.title)
    /\ lpc' = "skipped"
    /\ UNCHANGED <<the_lesson, lesson_obj, xlsxVars, distVars, classVars,
                   unitVars, textVars, generatorVars>>

\* the rest of the loop body: lesson_obj is built and appended
ExportLesson ==
    /\ lpc = "ready"
    /\ ~_should_skip_lesson(the_lesson.title)
    /\ lesson_obj' = LessonObj(the_lesson)
    /\ lpc' = "done"
    /\ UNCHANGED <<the_lesson, xlsxVars, distVars, classVars, unitVars, textVars, generatorVars>>

InitL == InitLesson /\ IdleXlsx /\ IdleDist /\ IdleClass /\ IdleUnit /\ IdleText
           /\ IdleGenerator

NextLesson == SkipLesson \/ ExportLesson

SpecLesson == InitL /\ [][NextLesson]_vars

\* the category of a title by case-insensitive keyword search
CategoryOf(t) ==
    IF HasSkipKeyword(t) THEN "Skip"
    ELSE IF HasTheoryKeyword(t) THEN "TheoryPractice"
    ELSE IF HasPracticeKeyword(t) THEN "Practice"
    ELSE "Standard"

SemicolonsOf(s) == {i \in 1..Len(s) : s[i] = ";"}

\* the part of s that starts after position p and runs to the next ';'
PartAfter(s, p) ==
    LET later == {i \in SemicolonsOf(s) : i > p}
        stop == IF later = {} THEN Len(s)
                ELSE (CHOOSE i \in later : \A j \in later : i <= j) - 1
    IN  SubSeq(s, p + 1, stop)

\* s without the white space at its two ends
Trimmed(s) ==
    LET solid == {i \in 1..Len(s) : ~IsSpace(s[i])}
    IN  IF solid = {} THEN <<>>
        ELSE SubSeq(s, CHOOSE i \in solid : \A j \in solid : i <= j,
                       CHOOSE i \in solid : \A j \in solid : i >= j)

\* the parts of s between its semicolons, in order, each trimmed and
\* dash-normalized, the empty ones left out
ExpectedOutcomes(s) ==
    IF s = <<>> THEN <<>>
    ELSE LET starts == SortedSeq({0} \cup SemicolonsOf(s))
             parts == [k \in 1..Len(starts) |->
                          _normalize_dashes(Trimmed(PartAfter(s, starts[k])))]
         IN  SelectSeq(parts, LAMBDA q : q # <<>>)

\* C14: a Practice lesson is exported with no mastery outcomes and the
\* practice template followed by the whole dash-normalized outcomes text; a
\* Standard lesson with empty teaching instructions and the outcomes split
\* on ';', trimmed, dash-normalized, empty parts dropped, in order; so only
\* a Standard lesson has mastery outcomes and only a Practice or
\* TheoryPractice lesson has teaching instructions.
C14_PracticeAndStandardFields ==
    lpc = "done" =>
        LET cat == CategoryOf(the_lesson.title)
            outcomes == the_lesson.learning_outcomes
        IN  /\ cat = "Practice" =>
                  /\ lesson_obj.masteryOutcomes = <<>>
                  /\ lesson_obj.teachingInstructions =
                        PRACTICE_TEACHING_INSTRUCTIONS \o _normalize_dashes(outcomes)
            /\ cat = "Standard" =>
                  /\ lesson_obj.teachingInstructions = <<>>
                  /\ lesson_obj.masteryOutcomes = ExpectedOutcomes(outcomes)
            /\ lesson_obj.masteryOutcomes # <<>> => cat = "Standard"
            /\ lesson_obj.teachingInstructions # <<>> =>
                  cat \in {"Practice", "TheoryPractice"}

\* a Standard lesson whose outcomes have an empty part, a part to trim and
\* a dash to normalize
C14_Witness ==
    /\ lpc = "done"
    /\ CategoryOf(the_lesson.title) = "Standard"
    /\ the_lesson.learning_outcomes = <<";"," ","a"," ","EM_DASH">>
    /\ lesson_obj.masteryOutcomes = << <<"a"," ","-">> >>
    /\ lesson_obj.teachingInstructions = <<>>

\* 0-based offset of the first occurrence of keyword in s, letters compared
\* without regard to case; -1 when there is none
FindCI(s, keyword) ==
    IF ContainsCI(s, keyword)
    THEN CHOOSE i \in 0..(Len(s) - Len(keyword)) :
            /\ ContainsCI(SubSeq(s, i + 1, i + Len(keyword)), keyword)
            /\ \A j \in 0..(i - 1) :
                  ~ContainsCI(SubSeq(s, j + 1, j + Len(keyword)), keyword)
    ELSE -1

\* s up to its first "Output:" in any casing, trimmed; s itself without one
CutAtOutput(s) ==
    LET i == FindCI(s, <<"o","u","t","p","u","t",":">>)
    IN  IF i = -1 THEN s ELSE Strip(SubSeq(s, 1, i))

\* C15: a TheoryPractice lesson is exported with no mastery outcomes and
\* the theory-practice template followed by the outcomes text cut at its
\* first "Output:" in any casing and dash-normalized, so that nothing from
\* the marker on is left.
C15_TheoryPracticeCutsAtOutputAnyCase ==
    (lpc = "done" /\ CategoryOf(the_lesson.title) = "TheoryPractice") =>
        /\ lesson_obj.masteryOutcomes = <<>>
        /\ lesson_obj.teachingInstructions =
              THEORY_PRACTICE_TEACHING_INSTRUCTIONS
                 \o _normalize_dashes(CutAtOutput(the_lesson.learning_outcomes))
        /\ ~ContainsCI(lesson_obj.teachingInstructions,
                       <<"o","u","t","p","u","t",":">>)

(***************************************************************************)
(* Export of one week: the body of "for week_num in sorted(...)" in        *)
(* generate_maestro_json.  The learning goal is built by joining up to     *)
(* MaxGoalParts fragments.                                                 *)
(***************************************************************************)
GoalFragments ==
    { <<"P","y">>, <<":">>, <<" ">>, <<" ","a",":","b">> }

RECURSIVE JoinedGoals(_)
JoinedGoals(n) ==
    IF n = 0 THEN {<<>>}
    ELSE JoinedGoals(n - 1)
            \cup {a \o b : a \in JoinedGoals(n - 1), b \in GoalFragments}

WeekNums == {1, 2, 12}
ChapterNums == {3, 4}

\* a week's chapter list: none, or one chapter with a kept and a skipped lesson
UnitChapters ==
    { <<>>,
      << [chapter_num |-> 3, title |-> <<"T">>, learning_goals |-> <<"g">>,
          lessons |->
             << [title |-> <<"2","."," ","I","n","t","r","o">>,
                 learning_outcomes |-> <<"x"," ","EM_DASH"," ","y">>,
                 time_minutes |-> <<>>],
                [title |-> <<"S","y","n","c"," ","S","e","s","s","i","o","n">>,
                 learning_outcomes |-> <<>>,
                 time_minutes |-> <<>>] >>] >> }

InitUnit ==
    /\ the_week \in {[week_num |-> n, learning_goal |-> g, chapters |-> c] :
                        n \in WeekNums, g \in JoinedGoals(MaxGoalParts),
                        c \in UnitChapters}
    /\ the_title = <<>>
    /\ unit_description = <<>>
    /\ unit_obj = <<>>
    /\ upc = "ready"

\* one iteration of the week loop: week_title, unit_description, unit_obj
ExportUnit ==
    /\ upc = "ready"
    /\ the_title' = _extract_week_title(the_week.learning_goal)
    /\ unit_description' = _extract_week_description(the_week.learning_goal)
    /\ unit_obj' = UnitObj(the_week)
    /\ upc' = "done"
    /\ UNCHANGED <<the_week, xlsxVars, distVars, classVars, lessonVars, textVars, generatorVars>>

InitU == InitUnit /\ IdleXlsx /\ IdleDist /\ IdleClass /\ IdleLesson /\ IdleText
           /\ IdleGenerator

NextUnit == ExportUnit

SpecUnit == InitU /\ [][NextUnit]_vars

\* the week w under week number n, its chapters all numbered c
Renumbered(w, n, c) ==
    [week_num |-> n,
     learning_goal |-> w.learning_goal,
     chapters |-> [i \in 1..Len(w.chapters) |->
                     [w.chapters[i] EXCEPT !.chapter_num = c]]]

\* C16: no field of a unit holds a week or chapter number of the model:
\* the unit is the same whatever number the week and its chapters carry,
\* also when the learning goal is empty or has no title part.
C16_UnitIgnoresWeekAndChapterNumbers ==
    upc = "done" =>
        \A n \in WeekNums, c \in ChapterNums :
            UnitObj(Renumbered(the_week, n, c)) = unit_obj

\* C16 (amended): no field of a unit holds a chapter number, and the week
\* number shows in one case only: when the learning goal has no title part
\* the unit title is "WEEK " followed by the week number; otherwise the
\* title is the title part, and the description and the lessons never
\* depend on the numbers.
C16_WeekNumberOnlyInFallbackTitle ==
    upc = "done" =>
        /\ \A n \in WeekNums, c \in ChapterNums :
              LET other == UnitObj(Renumbered(the_week, n, c))
              IN  /\ other.description = unit_obj.description
                  /\ other.lessons = unit_obj.lessons
                  /\ the_title # <<>> => other.title = unit_obj.title
        /\ unit_obj.title =
              IF the_title # <<>> THEN the_title
              ELSE <<"W","E","E","K"," ">> \o IntToText(the_week.week_num)
        /\ unit_obj.description = unit_description

\* week 12 with a chapter and a learning goal that has a description but no
\* title part
C16_Witness ==
    /\ upc = "done"
    /\ the_week.week_num = 12
    /\ the_week.chapters # <<>>
    /\ the_week.learning_goal # <<>>
    /\ the_title = <<>>
    /\ unit_description # <<>>
    /\ unit_obj.title = <<"W","E","E","K"," ","1","2">>
    /\ Len(unit_obj.lessons) = 1

ColonsOf(s) == {i \in 1..Len(s) : s[i] = ":"}

TitleChars == {"4", ".", " ", "x", "-"}
DashChars == DashVariants \cup {"-", "a"}

TextsOver(chars, n) == UNION {[1..k -> chars] : k \in 0..n}

InitText ==
    /\ the_text \in TextsOver(TitleChars, MaxTitleLen)
                      \cup TextsOver(DashChars, MaxDashLen)
    /\ result = <<>>
    /\ result2 = <<>>
    /\ tpc = "ready"

\* lesson_title = self._strip_leading_number(original_lesson_title)
StripLeadingNumber ==
    /\ tpc = "ready"
    /\ result' = _strip_leading_number(the_text)
    /\ tpc' = "strip1"
    /\ UNCHANGED <<the_text, result2, xlsxVars, distVars, classVars,
                   lessonVars, unitVars, generatorVars>>

\* _strip_leading_number applied to its own result
StripAgain ==
    /\ tpc = "strip1"
    /\ result2' = _strip_leading_number(result)
    /\ tpc' = "strip2"
    /\ UNCHANGED <<the_text, result, xlsxVars, distVars, classVars,
                   lessonVars, unitVars, generatorVars>>

\* lesson_title = self._normalize_dashes(lesson_title)
NormalizeDashes ==
    /\ tpc = "ready"
    /\ result' = _normalize_dashes(the_text)
    /\ tpc' = "dash1"
    /\ UNCHANGED <<the_text, result2, xlsxVars, distVars, classVars,
                   lessonVars, unitVars, generatorVars>>

\* _normalize_dashes applied to its own result
NormalizeAgain ==
    /\ tpc = "dash1"
    /\ result2' = _normalize_dashes(result)
    /\ tpc' = "dash2"
    /\ UNCHANGED <<the_text, result, xlsxVars, distVars, classVars,
                   lessonVars, unitVars, generatorVars>>

InitT == InitText /\ IdleXlsx /\ IdleDist /\ IdleClass /\ IdleLesson /\ IdleUnit
           /\ IdleGenerator

NextText ==
    \/ StripLeadingNumber
    \/ StripAgain
    \/ NormalizeDashes
    \/ NormalizeAgain

SpecText == InitT /\ [][NextText]_vars

\* t starts with one or more digits immediately followed by . ) - or :
StartsWithNumberMark(t) ==
    \E k \in 1..(Len(t) - 1) :
        /\ \A i \in 1..k : IsDigit(t[i])
        /\ t[k + 1] \in {".", ")", "-", ":"}

\* C18: a title that does not start with digits immediately followed by
\* one of . ) - : is returned unchanged, also when its leading digits are
\* followed only by white space.
C18_StripsOnlyNumberFollowedByMark ==
    tpc = "strip1" =>
        (~StartsWithNumberMark(the_text) => result = the_text)

\* the number of digits t starts with
LeadingDigits(t) ==
    CHOOSE k \in 0..Len(t) :
        /\ \A i \in 1..k : IsDigit(t[i])
        /\ k = Len(t) \/ ~IsDigit(t[k + 1])

IsMarkOrSpace(c) == c \in {".", ")", "-", ":", " ", "\t", "\n"}

\* the number of marks and white-space characters that follow the first d
\* characters of t
MarksAfter(t, d) ==
    CHOOSE k \in 0..(Len(t) - d) :
        /\ \A i \in 1..k : IsMarkOrSpace(t[d + i])
        /\ d + k = Len(t) \/ ~IsMarkOrSpace(t[d + k + 1])

\* t has a numbered prefix with text after it
HasNumberedPrefix(t) ==
    /\ LeadingDigits(t) >= 1
    /\ MarksAfter(t, LeadingDigits(t)) >= 1
    /\ LeadingDigits(t) + MarksAfter(t, LeadingDigits(t)) < Len(t)

\* t without its numbered prefix
WithoutNumberedPrefix(t) ==
    IF HasNumberedPrefix(t)
    THEN SubSeq(t, LeadingDigits(t) + MarksAfter(t, LeadingDigits(t)) + 1, Len(t))
    ELSE t

\* C18 (amended): a title that starts with one or more digits followed by
\* at least one of . ) - : or white space loses the digits and the whole
\* run of such characters, unless nothing would be left; every other title
\* is returned unchanged.
C18_StripsNumberFollowedByMarksOrSpace ==
    tpc = "strip1" => result = WithoutNumberedPrefix(the_text)

\* leading digits followed only by white space are stripped
C18_Witness ==
    /\ tpc = "strip1"
    /\ the_text = <<"4", " ", "x">>
    /\ result = <<"x">>

\* C19: stripping the result of a strip changes nothing.
C19_StripIsIdempotent ==
    tpc = "strip2" => result2 = result

\* C19 (amended): each application removes one numbered prefix; a second
\* application changes nothing exactly when the result of the first has no
\* numbered prefix of its own, and otherwise removes that one too.
C19_StripRemovesOnePrefixPerApplication ==
    tpc = "strip2" =>
        /\ result2 = WithoutNumberedPrefix(result)
        /\ result2 = result <=> ~HasNumberedPrefix(result)

\* a prefix was removed and the second application left the result alone
C19_Witness ==
    /\ tpc = "strip2"
    /\ the_text = <<"4", ".", " ", "x", "4">>
    /\ result = <<"x", "4">>
    /\ result2 = result

\* C20: the result of dash normalization has the length of its argument,
\* a hyphen wherever the argument has a listed dash variant and the
\* argument's character everywhere else, so none of the variants is left;
\* normalizing the result again changes nothing.
C20_DashNormalizationCompleteAndIdempotent ==
    /\ tpc \in {"dash1", "dash2"} =>
          /\ Len(result) = Len(the_text)
          /\ \A i \in 1..Len(the_text) :
                /\ result[i] \notin DashVariants
                /\ the_text[i] \in DashVariants => result[i] = "-"
                /\ the_text[i] \notin DashVariants => result[i] = the_text[i]
    /\ tpc = "dash2" => result2 = result

\* two different dash variants around a letter, normalized twice
C20_Witness ==
    /\ tpc = "dash2"
    /\ the_text = <<"EM_DASH", "a", "MINUS_SIGN">>
    /\ result = <<"-", "a", "-">>
    /\ result2 = result

(***************************************************************************)
(* The exported title of a lesson.                                         *)
(***************************************************************************)
\* the configured keys that t starts with, by their position in the table
KeysAtStart(t) ==
    {i \in 1..Len(LESSON_TITLE_PREFIXES) :
        /\ Len(LESSON_TITLE_PREFIXES[i].key) <= Len(t)
        /\ SubSeq(t, 1, Len(LESSON_TITLE_PREFIXES[i].key))
              = LESSON_TITLE_PREFIXES[i].key}

\* C21: the exported title is the original title without its numbered
\* prefix, dash-normalized, with the prefix text of the first configured
\* key it then starts with put in front; a title that starts with no
\* configured key gets no prefix, and never more than one is added.
C21_TitleIsStrippedNormalizedThenPrefixed ==
    lpc = "done" =>
        LET plain == _normalize_dashes(WithoutNumberedPrefix(the_lesson.title))
            keys == KeysAtStart(plain)
        IN  lesson_obj.title =
               IF keys = {} THEN plain
               ELSE LESSON_TITLE_PREFIXES[CHOOSE i \in keys : \A j \in keys : i <= j].text
                       \o plain

\* "4. Practice Session: Budget App (em dash) Part 1" exported with the
\* gear prefix, without its number and with a hyphen
C21_Witness ==
    /\ lpc = "done"
    /\ Len(the_lesson.title) = 40
    /\ the_lesson.title[1] = "4"
    /\ the_lesson.title[33] = "EM_DASH"
    /\ lesson_obj.title = <<"GEAR", " ">> \o
          [i \in 1..37 |-> IF i = 30 THEN "-" ELSE the_lesson.title[i + 3]]

(***************************************************************************)
(* SyllabusGenerator._parse_lessons_with_ai: the parse of the response     *)
(* text, one line at a time.  The response is a list of up to MaxLines     *)
(* lines (ai_content.split('\n')).                                         *)
(***************************************************************************)
TITLE_TAG == <<"T","I","T","L","E",":">>
OUTCOMES_TAG == <<"O","U","T","C","O","M","E","S",":">>

\* '; '.join(parts)
RECURSIVE JoinSemicolon(_)
JoinSemicolon(parts) ==
    IF parts = <<>> THEN <<>>
    ELSE IF Len(parts) = 1 THEN parts[1]
    ELSE parts[1] \o <<";", " ">> \o JoinSemicolon(Tail(parts))

\* the pending lesson as it is appended: "if outcomes_lines:
\* current_lesson['learning_outcomes'] = '; '.join(outcomes_lines)"
FlushedLesson(cl, ol) ==
    IF ol # <<>> THEN [cl EXCEPT !.learning_outcomes = JoinSemicolon(ol)] ELSE cl

\* the body of "for line in lines" on the locals st
LessonParseStep(st, raw) ==
    LET line == Strip(raw)
    IN  IF StartsWith(line, TITLE_TAG)
        THEN [st EXCEPT
                !.lessons =
                    IF st.current_lesson # <<>>
                    THEN Append(@, FlushedLesson(st.current_lesson[1],
                                                 st.outcomes_lines))
                    ELSE @,
                !.current_lesson =
                    <<[title |-> Strip(SubSeq(line, 7, Len(line))),
                       learning_outcomes |-> <<>>]>>,
                !.collecting_outcomes = FALSE,
                !.outcomes_lines = <<>>]
        ELSE IF StartsWith(line, OUTCOMES_TAG)
        THEN IF st.current_lesson # <<>>
             THEN LET outcomes_text == Strip(SubSeq(line, 10, Len(line)))
                  IN  [st EXCEPT
                          !.outcomes_lines =
                              IF outcomes_text # <<>> THEN Append(@, outcomes_text)
                              ELSE @,
                          !.collecting_outcomes = TRUE]
             ELSE st
        ELSE IF st.collecting_outcomes /\ line # <<>>
        THEN [st EXCEPT !.outcomes_lines = Append(@, line)]
        ELSE st

\* "Add the last lesson": the list after the loop
LessonsAtEnd(st) ==
    IF st.current_lesson # <<>> /\ st.current_lesson[1].title # <<>>
    THEN Append(st.lessons, FlushedLesson(st.current_lesson[1], st.outcomes_lines))
    ELSE st.lessons

ResponseLines ==
    { <<"T","I","T","L","E",":"," ","A">>,
      <<"T","I","T","L","E",":"," ","B">>,
      <<"T","I","T","L","E",":">>,
      <<"O","U","T","C","O","M","E","S",":"," ","x">>,
      <<"O","U","T","C","O","M","E","S",":">>,
      <<" ","y"," ">>,
      <<>>,
      <<"U","N","I","T",":"," ","U">>,
      <<"C","H","A","P","T","E","R",":"," ","1">> }

InitParse ==
    /\ ai_content \in UNION {[1..n -> ResponseLines] : n \in 0..MaxLines}
    /\ line_no = 0
    /\ current_lesson = <<>>
    /\ collecting_outcomes = FALSE
    /\ outcomes_lines = <<>>
    /\ parsed_lessons = <<>>
    /\ ppc = "loop"

\* one iteration of "for line in lines"
ParseLine ==
    /\ ppc = "loop"
    /\ line_no < Len(ai_content)
    /\ LET st == LessonParseStep(
                    [lessons |-> parsed_lessons,
                     current_lesson |-> current_lesson,
                     collecting_outcomes |-> collecting_outcomes,
                     outcomes_lines |-> outcomes_lines],
                    ai_content[line_no + 1])
       IN  /\ parsed_lessons' = st.lessons
           /\ current_lesson' = st.current_lesson
           /\ collecting_outcomes' = st.collecting_outcomes
           /\ outcomes_lines' = st.outcomes_lines
    /\ line_no' = line_no + 1
    /\ UNCHANGED <<ai_content, ppc, xlsxVars, distVars, classVars, helperVars, practiceVars,
                   syllabusVars, adjustVars>>

\* after the loop: the last lesson is added and the list returned
ParseReturn ==
    /\ ppc = "loop"
    /\ line_no = Len(ai_content)
    /\ LET all == LessonsAtEnd([lessons |-> parsed_lessons,
                                 current_lesson |-> current_lesson,
                                 collecting_outcomes |-> collecting_outcomes,
                                 outcomes_lines |-> outcomes_lines])
       IN  /\ all # <<>>
           /\ parsed_lessons' = all
    /\ ppc' = "returned"
    /\ UNCHANGED <<ai_content, line_no, current_lesson, collecting_outcomes,
                   outcomes_lines, xlsxVars, distVars, classVars, helperVars, practiceVars,
                   syllabusVars, adjustVars>>

\* after the loop: "if not lessons: raise ValueError", re-raised as
\* RuntimeError by the handler of the function
ParseFail ==
    /\ ppc = "loop"
    /\ line_no = Len(ai_content)
    /\ LessonsAtEnd([lessons |-> parsed_lessons,
                      current_lesson |-> current_lesson,
                      collecting_outcomes |-> collecting_outcomes,
                      outcomes_lines |-> outcomes_lines]) = <<>>
    /\ ppc' = "failed"
    /\ UNCHANGED <<ai_content, line_no, current_lesson, collecting_outcomes,
                   outcomes_lines, parsed_lessons, xlsxVars, distVars, classVars,
                   helperVars, practiceVars,
                   syllabusVars, adjustVars>>

InitP ==
    InitParse /\ IdleXlsx /\ IdleDist /\ IdleClass /\ IdleHelpers /\ IdlePractice
        /\ IdleSyllabus /\ IdleAdjust

NextParse == ParseLine \/ ParseReturn \/ ParseFail

SpecParse == InitP /\ [][NextParse]_vars

\* line i of the response without the white space at its ends
CleanLine(i) == Trimmed(ai_content[i])

\* text begins with tag
HasTag(line, tag) ==
    Len(tag) <= Len(line) /\ SubSeq(line, 1, Len(tag)) = tag

UNIT_TAG == <<"U","N","I","T",":">>
CHAPTER_TAG == <<"C","H","A","P","T","E","R",":">>

TitleLineNos == {i \in 1..Len(ai_content) : HasTag(CleanLine(i), TITLE_TAG)}

\* what follows the tag on line i
TagText(i, tag) == Trimmed(SubSeq(CleanLine(i), Len(tag) + 1, Len(CleanLine(i))))

\* the last line before the TITLE: line that follows line i
SegmentEnd(i) ==
    LET later == {j \in TitleLineNos : j > i}
    IN  IF later = {} THEN Len(ai_content)
        ELSE (CHOOSE j \in later : \A k \in later : j <= k) - 1

\* line j carries none of the four tags
Untagged(j) ==
    /\ ~HasTag(CleanLine(j), TITLE_TAG)
    /\ ~HasTag(CleanLine(j), OUTCOMES_TAG)
    /\ ~HasTag(CleanLine(j), UNIT_TAG)
    /\ ~HasTag(CleanLine(j), CHAPTER_TAG)

\* the outcome texts of the lesson whose TITLE: line is line i: the text
\* of its OUTCOMES: lines and the non-empty untagged lines that follow an
\* OUTCOMES: line, up to the next TITLE: line, in input order
OutcomeTexts(i) ==
    LET picked == {j \in (i + 1)..SegmentEnd(i) :
                      \/ /\ HasTag(CleanLine(j), OUTCOMES_TAG)
                         /\ TagText(j, OUTCOMES_TAG) # <<>>
                      \/ /\ Untagged(j)
                         /\ CleanLine(j) # <<>>
                         /\ \E k \in (i + 1)..(j - 1) :
                               HasTag(CleanLine(k), OUTCOMES_TAG)}
        order == SortedSeq(picked)
    IN  [n \in 1..Len(order) |->
            IF HasTag(CleanLine(order[n]), OUTCOMES_TAG)
            THEN TagText(order[n], OUTCOMES_TAG)
            ELSE CleanLine(order[n])]

\* C22: the lessons with a title are returned in the order of their TITLE:
\* lines, each with the text of its OUTCOMES: line and the non-empty
\* untagged lines that follow it up to the next TITLE: line, joined with
\* "; " in input order.
C22_LessonsInTitleOrderWithJoinedOutcomes ==
    ppc = "returned" =>
        LET titled == SortedSeq({i \in TitleLineNos : TagText(i, TITLE_TAG) # <<>>})
            got == SelectSeq(parsed_lessons, LAMBDA l : l.title # <<>>)
        IN  got = [n \in 1..Len(titled) |->
                      [title |-> TagText(titled[n], TITLE_TAG),
                       learning_outcomes |->
                          JoinSemicolon(OutcomeTexts(titled[n]))]]

\* C23: no returned lesson's learning_outcomes contains the text of a
\* UNIT: or CHAPTER: line of the response.
C23_NoDelimiterLineInOutcomes ==
    ppc = "returned" =>
        \A n \in 1..Len(parsed_lessons) :
            \A i \in 1..Len(ai_content) :
                (HasTag(CleanLine(i), UNIT_TAG) \/ HasTag(CleanLine(i), CHAPTER_TAG))
                => ~Contains(parsed_lessons[n].learning_outcomes, CleanLine(i))

\* C29: every returned lesson has a non-empty title, and the parser never
\* returns an empty list.
C29_EveryReturnedLessonHasTitle ==
    ppc = "returned" =>
        /\ parsed_lessons # <<>>
        /\ \A n \in 1..Len(parsed_lessons) : parsed_lessons[n].title # <<>>

(***************************************************************************)
(* Practice sessions of a week (syllabus_generator.py):                    *)
(* generate_practice_sessions_for_week sends one request for all chapters  *)
(* of the week and parses the tagged response into one group of sessions   *)
(* per chapter; add_practice_sessions_to_week attaches the groups and      *)
(* injects the live sessions and the weekly review.                        *)
(***************************************************************************)
NUM_LIVE_SESSIONS_PER_CHAPTER == 1
NUM_WEEKLY_REVIEW_PER_WEEK == 1
LIVE_SESSION_TITLE == <<"S","y","n","c"," ","S","e","s","s","i","o","n",":"," ","Q","&","A">>
WEEKLY_REVIEW_TITLE == <<"W","e","e","k","l","y"," ","R","e","v","i","e","w">>
LIVE_SESSION_OUTCOMES ==
    <<"A","s","k"," ","q","u","e","s","t","i","o","n","s",","," ","c","l",
      "a","r","i","f","y"," ","c","o","n","c","e","p","t","s",","," ","a",
      "n","d"," ","e","n","g","a","g","e"," ","w","i","t","h"," ","i","n",
      "s","t","r","u","c","t","o","r","s"," ","a","n","d"," ","p","e","e",
      "r","s"," ","i","n"," ","r","e","a","l","-","t","i","m","e",".">>
WEEKLY_REVIEW_OUTCOMES ==
    <<"R","e","v","i","e","w"," ","t","h","e"," ","c","o","n","c","e","p",
      "t","s"," ","l","e","a","r","n","e","d"," ","i","n"," ","t","h","i",
      "s"," ","w","e","e","k"," ","a","n","d"," ","c","o","m","p","l","e",
      "t","e"," ","w","e","e","k","l","y"," ","a","s","s","e","s","s","m",
      "e","n","t",".">>

\* variant: a session without a title is appended as well
WithSession_Untitled(sessions, cs) ==
    IF cs # <<>> THEN Append(sessions, cs[1]) ELSE sessions

\* "if current_session and current_session.get('title')": the session is
\* appended to the chapter's list
WithSession(sessions, cs) ==
    IF cs # <<>> /\ cs[1].title # <<>> THEN Append(sessions, cs[1]) ELSE sessions

\* "if current_chapter_sessions": the list is appended as one group
WithGroup(groups, sessions) ==
    IF sessions # <<>> THEN Append(groups, sessions) ELSE groups

\* the body of "for line in lines" on the locals st
PracticeParseStep(st, raw) ==
    LET line == Strip(raw)
    IN  CASE StartsWith(line, CHAPTER_TAG) ->
               LET titled == st.current_session # <<>>
                                /\ st.current_session[1].title # <<>>
                   sessions == WithSession(st.current_chapter_sessions,
                                           st.current_session)
               IN  [all_practice_sessions |->
                        WithGroup(st.all_practice_sessions, sessions),
                    current_chapter_sessions |->
                        IF sessions # <<>> THEN <<>> ELSE sessions,
                    current_session |->
                        IF titled THEN <<>> ELSE st.current_session]
          [] StartsWith(line, TITLE_TAG) ->
               [st EXCEPT
                  !.current_chapter_sessions = WithSession(@, st.current_session),
                  !.current_session =
                      <<[title |-> Strip(SubSeq(line, 7, Len(line))),
                         learning_outcomes |-> <<>>]>>]
          [] StartsWith(line, OUTCOMES_TAG) ->
               IF st.current_session # <<>>
               THEN [st EXCEPT !.current_session[1].learning_outcomes =
                                   Strip(SubSeq(line, 10, Len(line)))]
               ELSE st
          [] OTHER -> st

\* "Add the last session and chapter": the groups after the loop
GroupsAtEnd(st) ==
    WithGroup(st.all_practice_sessions,
              WithSession(st.current_chapter_sessions, st.current_session))

\* variant: the live session is titled "Live Q&A"
WithLiveSessions_Renamed(chapter, n) ==
    IF n = 0 THEN chapter
    ELSE <<[title |-> <<"L","i","v","e"," ","Q","&","A">>,
            learning_outcomes |-> LIVE_SESSION_OUTCOMES]>> \o chapter

\* the live sessions put at the start of a chapter
RECURSIVE WithLiveSessions(_, _)
WithLiveSessions(chapter, n) ==
    IF n = 0 THEN chapter
    ELSE WithLiveSessions(<<[title |-> LIVE_SESSION_TITLE,
                             learning_outcomes |-> LIVE_SESSION_OUTCOMES]>>
                             \o chapter, n - 1)

\* the weekly reviews put at the end of a chapter
RECURSIVE WithWeeklyReviews(_, _)
WithWeeklyReviews(chapter, n) ==
    IF n = 0 THEN chapter
    ELSE WithWeeklyReviews(Append(chapter,
                              [title |-> WEEKLY_REVIEW_TITLE,
                               learning_outcomes |-> WEEKLY_REVIEW_OUTCOMES]),
                           n - 1)

\* add_practice_sessions_to_week after the groups are known: zip of the
\* chapters and the groups, live sessions first, weekly review last
AddPracticeSessions(chapters, groups) ==
    LET n == IF Len(chapters) < Len(groups) THEN Len(chapters) ELSE Len(groups)
        with == [k \in 1..n |->
                    WithLiveSessions(chapters[k] \o groups[k],
                                     NUM_LIVE_SESSIONS_PER_CHAPTER)]
    IN  IF with = <<>> THEN with
        ELSE [with EXCEPT ![n] = WithWeeklyReviews(@, NUM_WEEKLY_REVIEW_PER_WEEK)]

MaxPracticeLines == 4

\* lessons of the week handed to add_practice_sessions_to_week
WeekLesson(name) == [title |-> name, learning_outcomes |-> <<"o">>]

WeekLessonLists ==
    { << <<WeekLesson(<<"L","1">>)>> >>,
      << <<WeekLesson(<<"L","1">>)>>, <<WeekLesson(<<"L","2">>)>> >>,
      << <<WeekLesson(<<"L","1">>), WeekLesson(<<"L","2">>)>>, <<>> >> }

\* lines a response to the practice-session request is made of
PracticeLines ==
    { <<"C","H","A","P","T","E","R",":"," ","1">>,
      <<"C","H","A","P","T","E","R",":"," ","2">>,
      <<"T","I","T","L","E",":"," ","P">>,
      <<"T","I","T","L","E",":"," ","Q">>,
      <<"T","I","T","L","E",":">>,
      <<"O","U","T","C","O","M","E","S",":"," ","x">>,
      <<"n","o","t","e">> }

\* the count of sessions per chapter as a caller passes it: an integer, as
\* the signature and generate_syllabus have it, or a list of counts
IntArg(n) == [k |-> "int", n |-> n, counts |-> <<>>]
ListArg(counts) == [k |-> "list", n |-> 0, counts |-> counts]

NUM_PRACTICE_SESSIONS_PER_CHAPTER == 1

\* "for ... in enumerate(practice_sessions_needed, 1)" in
\* get_practice_sessions_for_week_prompt accepts the argument
Iterable(arg) == arg.k = "list"

InitPractice ==
    /\ week_lessons \in WeekLessonLists
    /\ num_sessions_per_chapter \in
          { IntArg(NUM_PRACTICE_SESSIONS_PER_CHAPTER),
            ListArg([c \in 1..Len(week_lessons) |->
                        NUM_PRACTICE_SESSIONS_PER_CHAPTER]) }
    /\ practice_content = <<>>
    /\ practice_line = 0
    /\ all_practice_sessions = <<>>
    /\ current_chapter_sessions = <<>>
    /\ current_session = <<>>
    /\ week_lessons_with_practice = <<>>
    /\ api_calls = 0
    /\ gpc = "called"

\* one streamed request for all chapters of the week; the reply is split
\* into lines and the locals of the parse are initialised
PracticeRequest ==
    /\ gpc = "called"
    /\ Iterable(num_sessions_per_chapter)
    /\ \E reply \in UNION {[1..n -> PracticeLines] : n \in 0..MaxPracticeLines} :
          practice_content' = reply
    /\ api_calls' = api_calls + 1
    /\ gpc' = "loop"
    /\ UNCHANGED <<week_lessons, num_sessions_per_chapter,
                   practice_line, all_practice_sessions,
                   current_chapter_sessions, current_session,
                   week_lessons_with_practice,
                   xlsxVars, distVars, classVars, helperVars, parseVars,
                   syllabusVars, adjustVars>>

\* one iteration of "for line in lines"
PracticeLine ==
    /\ gpc = "loop"
    /\ practice_line < Len(practice_content)
    /\ LET st == PracticeParseStep(
                    [all_practice_sessions |-> all_practice_sessions,
                     current_chapter_sessions |-> current_chapter_sessions,
                     current_session |-> current_session],
                    practice_content[practice_line + 1])
       IN  /\ all_practice_sessions' = st.all_practice_sessions
           /\ current_chapter_sessions' = st.current_chapter_sessions
           /\ current_session' = st.current_session
    /\ practice_line' = practice_line + 1
    /\ UNCHANGED <<week_lessons, num_sessions_per_chapter,
                   practice_content, week_lessons_with_practice,
                   api_calls, gpc,
                   xlsxVars, distVars, classVars, helperVars, parseVars,
                   syllabusVars, adjustVars>>

\* after the loop: the last session and the last group are added
PracticeFlush ==
    /\ gpc = "loop"
    /\ practice_line = Len(practice_content)
    /\ all_practice_sessions' =
          GroupsAtEnd([all_practice_sessions |-> all_practice_sessions,
                       current_chapter_sessions |-> current_chapter_sessions,
                       current_session |-> current_session])
    /\ gpc' = "parsed"
    /\ UNCHANGED <<week_lessons, num_sessions_per_chapter,
                   practice_content, practice_line,
                   current_chapter_sessions, current_session,
                   week_lessons_with_practice, api_calls,
                   xlsxVars, distVars, classVars, helperVars, parseVars,
                   syllabusVars, adjustVars>>

\* variant: fewer groups than chapters are accepted
ChapterCountMatches_AtMost(groups, chapters) == Len(groups) <= Len(chapters)

\* "if len(all_practice_sessions) != len(week_lessons): raise", negated
ChapterCountMatches(groups, chapters) == Len(groups) = Len(chapters)

\* as many groups as chapters: generate_practice_sessions_for_week returns
\* them and add_practice_sessions_to_week builds and returns the week
PracticeReturn ==
    /\ gpc = "parsed"
    /\ ChapterCountMatches(all_practice_sessions, week_lessons)
    /\ week_lessons_with_practice' =
          AddPracticeSessions(week_lessons, all_practice_sessions)
    /\ gpc' = "returned"
    /\ UNCHANGED <<week_lessons, num_sessions_per_chapter,
                   practice_content, practice_line,
                   all_practice_sessions, current_chapter_sessions,
                   current_session, api_calls,
                   xlsxVars, distVars, classVars, helperVars, parseVars,
                   syllabusVars, adjustVars>>

\* the prompt is built before the "try": enumerate() of an integer raises
\* TypeError, no request is sent, and no caller handles the error
PracticeTypeError ==
    /\ gpc = "called"
    /\ ~Iterable(num_sessions_per_chapter)
    /\ gpc' = "type_error"
    /\ UNCHANGED <<week_lessons, num_sessions_per_chapter, practice_content,
                   practice_line, all_practice_sessions,
                   current_chapter_sessions, current_session,
                   week_lessons_with_practice, api_calls,
                   xlsxVars, distVars, classVars, helperVars, parseVars,
                   syllabusVars, adjustVars>>

\* "Mismatch in chapter count": ValueError, re-raised as RuntimeError, which
\* add_practice_sessions_to_week does not handle
PracticeFail ==
    /\ gpc = "parsed"
    /\ ~ChapterCountMatches(all_practice_sessions, week_lessons)
    /\ gpc' = "failed"
    /\ UNCHANGED <<week_lessons, num_sessions_per_chapter,
                   practice_content, practice_line,
                   all_practice_sessions, current_chapter_sessions,
                   current_session, week_lessons_with_practice, api_calls,
                   xlsxVars, distVars, classVars, helperVars, parseVars,
                   syllabusVars, adjustVars>>

InitG ==
    InitPractice /\ IdleXlsx /\ IdleDist /\ IdleClass /\ IdleHelpers /\ IdleParse
        /\ IdleSyllabus /\ IdleAdjust

NextPractice ==
    PracticeTypeError \/ PracticeRequest \/ PracticeLine \/ PracticeFlush
        \/ PracticeReturn \/ PracticeFail

SpecPractice == InitG /\ [][NextPractice]_vars

\* line i of the reply without the white space at its ends
PLine(i) == Trimmed(practice_content[i])

\* what follows the tag on line i of the reply
PTagText(i, tag) == Trimmed(SubSeq(PLine(i), Len(tag) + 1, Len(PLine(i))))

ChapterLineNos == {i \in 1..Len(practice_content) : HasTag(PLine(i), CHAPTER_TAG)}

\* TITLE: lines of the reply that carry a title
SessionLineNos ==
    {i \in 1..Len(practice_content) :
        HasTag(PLine(i), TITLE_TAG) /\ PTagText(i, TITLE_TAG) # <<>>}

\* the session that the TITLE: line i announces: its outcomes are the text
\* of the last OUTCOMES: line before the next TITLE: or CHAPTER: line
SessionOf(i) ==
    LET stops == {j \in (i + 1)..Len(practice_content) :
                     HasTag(PLine(j), TITLE_TAG) \/ HasTag(PLine(j), CHAPTER_TAG)}
        last == IF stops = {} THEN Len(practice_content)
                ELSE (CHOOSE j \in stops : \A k \in stops : j <= k) - 1
        outs == {j \in (i + 1)..last : HasTag(PLine(j), OUTCOMES_TAG)}
    IN  [title |-> PTagText(i, TITLE_TAG),
         learning_outcomes |->
            IF outs = {} THEN <<>>
            ELSE PTagText(CHOOSE j \in outs : \A k \in outs : k <= j,
                          OUTCOMES_TAG)]

\* the sessions announced on lines a..b, in input order
SessionsBetween(a, b) ==
    LET order == SortedSeq({i \in SessionLineNos : a <= i /\ i <= b})
    IN  [n \in 1..Len(order) |-> SessionOf(order[n])]

\* the sessions announced before the first CHAPTER: line
LeadingSessions ==
    SessionsBetween(1, IF ChapterLineNos = {} THEN Len(practice_content)
                       ELSE (CHOOSE j \in ChapterLineNos :
                                \A k \in ChapterLineNos : j <= k) - 1)

\* C24 as stated: the sessions announced before any CHAPTER: line form one
\* implicit group, and a reply without any CHAPTER: line yields exactly one
\* group holding all its sessions in order.
C24_NoChapterLineYieldsOneGroup ==
    gpc = "parsed" =>
        /\ LeadingSessions # <<>> =>
              /\ all_practice_sessions # <<>>
              /\ all_practice_sessions[1] = LeadingSessions
        /\ ChapterLineNos = {} =>
              all_practice_sessions = <<SessionsBetween(1, Len(practice_content))>>

\* C24, amended: the sessions announced before any CHAPTER: line form one
\* implicit group, and a reply without any CHAPTER: line that announces at
\* least one session yields exactly one group holding all its sessions in
\* order; without any session it yields no group.
C24_LeadingSessionsFormOneGroup ==
    gpc = "parsed" =>
        /\ LeadingSessions # <<>> =>
              /\ all_practice_sessions # <<>>
              /\ all_practice_sessions[1] = LeadingSessions
        /\ ChapterLineNos = {} =>
              all_practice_sessions =
                 IF SessionLineNos = {} THEN <<>>
                 ELSE <<SessionsBetween(1, Len(practice_content))>>

\* two sessions before the first CHAPTER: line, one after it
C24_Witness ==
    /\ gpc = "parsed"
    /\ Len(practice_content) = 4
    /\ practice_content[3] = <<"C","H","A","P","T","E","R",":"," ","1">>
    /\ Len(all_practice_sessions) = 2
    /\ Len(all_practice_sessions[1]) = 2
    /\ all_practice_sessions[1][1].title = <<"P">>
    /\ all_practice_sessions[1][2].title = <<"Q">>

\* the k-th CHAPTER: line of the reply
ChapterLineNo(k) == SortedSeq(ChapterLineNos)[k]

\* C30: when the groups are returned for a reply whose first tagged line
\* is a CHAPTER: line, the k-th group holds exactly the sessions announced
\* between the k-th CHAPTER: line and the next one, and these are the
\* practice sessions appended to chapter k.
C30_GroupKIsUnderChapterMarkerK ==
    (/\ gpc = "returned"
     /\ ChapterLineNos # {}
     /\ \A i \in 1..Len(practice_content) :
           (HasTag(PLine(i), TITLE_TAG) \/ HasTag(PLine(i), OUTCOMES_TAG))
           => \E j \in ChapterLineNos : j < i)
    => \A k \in 1..Len(all_practice_sessions) :
          LET under ==
                 IF k > Cardinality(ChapterLineNos) THEN <<>>
                 ELSE SessionsBetween(ChapterLineNo(k),
                         IF k = Cardinality(ChapterLineNos)
                         THEN Len(practice_content)
                         ELSE ChapterLineNo(k + 1))
          IN  /\ all_practice_sessions[k] = under
              /\ SubSeq(week_lessons_with_practice[k],
                        NUM_LIVE_SESSIONS_PER_CHAPTER + 1,
                        NUM_LIVE_SESSIONS_PER_CHAPTER + Len(week_lessons[k])
                            + Len(under))
                    = week_lessons[k] \o under

(***************************************************************************)
(* generate_syllabus: for each week the practice sessions are requested    *)
(* and attached (generate_learning_goals), the week's learning goal is     *)
(* requested, and add_week_data writes one worksheet row per lesson.  The  *)
(* saved workbook is then read by read_xlsx and exported by                *)
(* generate_maestro_json.                                                  *)
(***************************************************************************)
MaxSyllabusLessons == 3

\* the dict in insertion order, without its "default" entry
BASE_TIME_ESTIMATES ==
    << [keyword |-> <<"p","r","a","c","t","i","c","e">>, time |-> 60],
       [keyword |-> <<"w","e","e","k","l","y"," ","r","e","v","i","e","w">>, time |-> 120],
       [keyword |-> <<"f","i","n","a","l"," ","a","s","s","e","s","s","m","e","n","t">>, time |-> 120],
       [keyword |-> <<"s","y","n","c"," ","s","e","s","s","i","o","n">>, time |-> 90] >>
DEFAULT_TIME_ESTIMATE == 45
MINIMUM_LESSON_TIME == 30

\* estimate_lesson_time(lesson, week_lessons)
estimate_lesson_time(lesson) ==
    LET title_lower == Lower(lesson.title)
        hits == {i \in 1..Len(BASE_TIME_ESTIMATES) :
                    Contains(title_lower, BASE_TIME_ESTIMATES[i].keyword)}
        base_time == IF hits = {} THEN DEFAULT_TIME_ESTIMATE
                     ELSE BASE_TIME_ESTIMATES[CHOOSE i \in hits :
                                                 \A j \in hits : i <= j].time
    IN  IF base_time < MINIMUM_LESSON_TIME THEN MINIMUM_LESSON_TIME ELSE base_time

\* estimated_times of add_week_data: one list of times per chapter
EstimatedTimes(chapters) ==
    [c \in 1..Len(chapters) |->
        [j \in 1..Len(chapters[c]) |-> estimate_lesson_time(chapters[c][j])]]

\* "adjusted_times = estimated_times"
AdjustedTimes(times) == times

\* the row add_week_data writes for lesson j of chapter c; cells that are
\* not written, or merged away, read back as None
WeekRow(wk, c, j, lesson, time, goal, info) ==
    [week_num |-> IF c = 1 /\ j = 1 THEN NumCell(wk, 0) ELSE NoneCell,
     week_goal |-> IF c = 1 /\ j = 1 THEN goal ELSE <<>>,
     chapter_num |-> IF j = 1
                     THEN StrCell(IntToText(wk) \o <<".">> \o IntToText(c))
                     ELSE NoneCell,
     chapter_goals |-> IF j = 1 THEN info.goals ELSE <<>>,
     chapter_title |-> IF j = 1 THEN info.title ELSE <<>>,
     lesson_title |-> lesson.title,
     time_to_complete |-> IntToText(time),
     mastery_outcome |-> lesson.learning_outcomes]

\* the rows of chapters c.. of the week, in writing order
RECURSIVE WeekRowsFrom(_, _, _, _, _, _)
WeekRowsFrom(wk, chapters, times, c, goal, info) ==
    IF c > Len(chapters) \/ c > Len(times) THEN <<>>
    ELSE [j \in 1..Len(chapters[c]) |->
             WeekRow(wk, c, j, chapters[c][j], times[c][j], goal, info)]
         \o WeekRowsFrom(wk, chapters, times, c + 1, goal, info)

\* add_week_data(week_num, week_lessons, week_learning_goal): rows appended
WeekRows(wk, chapters, goal, info) ==
    WeekRowsFrom(wk, chapters, AdjustedTimes(EstimatedTimes(chapters)), 1,
                 goal, info)

\* generate_practice_sessions_for_week, the whole loop over the lines
RECURSIVE PracticeParse(_, _)
PracticeParse(st, lines) ==
    IF lines = <<>> THEN st
    ELSE PracticeParse(PracticeParseStep(st, Head(lines)), Tail(lines))

\* read_xlsx, the whole loop over the rows
RECURSIVE ReadRows(_, _)
ReadRows(st, rows) ==
    IF rows = <<>> \/ st.pc = "exited" THEN st
    ELSE ReadRows(RowResult(st.weeks_data, st.current_week,
                            st.current_chapter, Head(rows)), Tail(rows))

\* lessons read from the lessons file
SyllabusLessons ==
    { [title |-> <<"I","n","t","r","o">>, learning_outcomes |-> <<"a",";"," ","b">>],
      [title |-> <<"1","."," ","O","p","e","n","i","n","g"," ","s","e","s","s","i","o","n">>, learning_outcomes |-> <<"c">>],
      [title |-> <<>>, learning_outcomes |-> <<"d">>] }

\* distribute_lessons(lessons)[wk]
DistributionOf(list, wk) ==
    LET before == IF wk = 1 THEN 0
                  ELSE LET RECURSIVE Sum(_)
                           Sum(k) == IF k = 0 THEN 0
                                     ELSE Sum(k - 1) + WeekLessonCount(Len(list), k)
                       IN  Sum(wk - 1)
    IN  WeekChapters(list, before, WeekLessonCount(Len(list), wk), 0)

\* replies to the practice-session request: for each CHAPTER: marker in
\* turn, whether a session is listed under it
SessionPlans ==
    { <<TRUE, TRUE, TRUE, TRUE, TRUE>>,
      <<TRUE, TRUE, TRUE, TRUE>>,
      <<FALSE, TRUE, TRUE, TRUE, TRUE, TRUE>>,
      <<TRUE, TRUE, TRUE, TRUE, TRUE, TRUE>> }

RECURSIVE ReplyLines(_, _)
ReplyLines(plan, k) ==
    IF k > Len(plan) THEN <<>>
    ELSE <<CHAPTER_TAG \o <<" ">> \o IntToText(k)>>
         \o (IF plan[k]
             THEN << TITLE_TAG \o <<" ">> \o PRACTICE_SESSION_KEYWORDS[2]
                        \o <<":", " ">> \o IntToText(k),
                     OUTCOMES_TAG \o <<" ","A","p","p","l","y"," ","i","t","."," ","O","u","t","p","u","t",":"," ","r">> >>
             ELSE <<>>)
         \o ReplyLines(plan, k + 1)

PracticeReplies == {ReplyLines(plan, 1) : plan \in SessionPlans}

\* the replies to the learning-goal and chapter-info requests
GoalReply == <<"P","y",":"," ","a"," ">>
ChapterInfoReply == [title |-> <<"T">>, goals |-> <<"g">>]

\* generate_syllabus after distribute_lessons.  The count of practice
\* sessions is NUM_PRACTICE_SESSIONS_PER_CHAPTER, which the week loop hands
\* down unchanged: as the integer of the source every run stops in the
\* first week (PracticeTypeError); as a list of counts per chapter, the
\* form get_practice_sessions_for_week_prompt iterates over, the weeks are
\* generated.
InitSyllabus ==
    /\ lessons \in UNION {[1..n -> SyllabusLessons] : n \in 0..MaxSyllabusLessons}
    /\ distribution = [wk \in 1..NUM_OF_WEEKS |-> DistributionOf(lessons, wk)]
    /\ lesson_index = Len(lessons)
    /\ week = NUM_OF_WEEKS + 1
    /\ dpc = "returned"
    /\ week_num = 1
    /\ sheet_rows = <<>>
    /\ generated_weeks = <<>>
    /\ request_log = <<>>
    /\ spc = "loop"
    /\ week_lessons = distribution[1]
    /\ num_sessions_per_chapter \in
          { IntArg(NUM_PRACTICE_SESSIONS_PER_CHAPTER),
            ListArg([c \in 1..NUM_OF_CHAPTERS_PER_WEEK |->
                        NUM_PRACTICE_SESSIONS_PER_CHAPTER]) }
    /\ practice_content = <<>>
    /\ practice_line = 0
    /\ all_practice_sessions = <<>>
    /\ current_chapter_sessions = <<>>
    /\ current_session = <<>>
    /\ week_lessons_with_practice = <<>>
    /\ api_calls = 0
    /\ gpc = "called"

\* generate_practice_sessions_for_week up to the end of its parse: one
\* request, and the reply parsed into groups
SyllabusPractice ==
    /\ spc = "loop"
    /\ gpc = "called"
    /\ Iterable(num_sessions_per_chapter)
    /\ \E reply \in PracticeReplies :
          LET st == PracticeParse([all_practice_sessions |-> <<>>,
                                   current_chapter_sessions |-> <<>>,
                                   current_session |-> <<>>], reply)
          IN  /\ practice_content' = reply
              /\ practice_line' = Len(reply)
              /\ all_practice_sessions' = GroupsAtEnd(st)
              /\ current_chapter_sessions' = st.current_chapter_sessions
              /\ current_session' = st.current_session
    /\ api_calls' = api_calls + 1
    /\ request_log' = Append(request_log, <<week_num, "practice">>)
    /\ gpc' = "parsed"
    /\ UNCHANGED <<week_lessons, num_sessions_per_chapter,
                   week_lessons_with_practice, week_num, sheet_rows,
                   generated_weeks, spc,
                   xlsxVars, distVars, classVars, helperVars, parseVars,
                   adjustVars>>

\* the rest of the loop body: the learning goal is requested,
\* weeks_data[week_num] is set, and add_week_data requests the chapter
\* info of every chapter and writes the rows of the week
SyllabusWeekData ==
    /\ spc = "loop"
    /\ gpc = "returned"
    /\ request_log' =
          request_log \o <<<<week_num, "goals">>>>
             \o [c \in 1..Len(week_lessons_with_practice) |->
                    <<week_num, "chapter">>]
    /\ generated_weeks' =
          Append(generated_weeks,
                 [week_num |-> week_num, learning_goal |-> Strip(GoalReply),
                  chapters |-> week_lessons_with_practice])
    /\ sheet_rows' =
          sheet_rows \o WeekRows(week_num, week_lessons_with_practice,
                                 Strip(GoalReply), ChapterInfoReply)
    /\ week_num' = week_num + 1
    /\ week_lessons' = IF week_num < NUM_OF_WEEKS
                       THEN distribution[week_num + 1] ELSE <<>>
    /\ practice_content' = <<>>
    /\ practice_line' = 0
    /\ all_practice_sessions' = <<>>
    /\ current_chapter_sessions' = <<>>
    /\ current_session' = <<>>
    /\ week_lessons_with_practice' = <<>>
    /\ gpc' = IF week_num < NUM_OF_WEEKS THEN "called" ELSE "idle"
    /\ api_calls' = api_calls + 1 + Len(week_lessons_with_practice)
    /\ UNCHANGED <<num_sessions_per_chapter, spc,
                   xlsxVars, distVars, classVars, helperVars, parseVars,
                   adjustVars>>

\* after the last week: the workbook is saved
SyllabusSave ==
    /\ spc = "loop"
    /\ week_num > NUM_OF_WEEKS
    /\ spc' = "saved"
    /\ UNCHANGED <<week_num, sheet_rows, generated_weeks, request_log,
                   xlsxVars, distVars, classVars, helperVars, parseVars,
                   practiceVars, adjustVars>>

\* read_xlsx on the saved workbook
ReadWorkbook ==
    /\ spc = "saved"
    /\ LET st == ReadRows([pc |-> "reading", current_week |-> <<>>,
                           current_chapter |-> <<>>, weeks_data |-> <<>>],
                          sheet_rows)
       IN  /\ weeks_data' = st.weeks_data
           /\ current_week' = st.current_week
           /\ current_chapter' = st.current_chapter
           /\ pc' = IF st.pc = "exited" THEN "exited" ELSE "returned"
    /\ nrows' = Len(sheet_rows)
    /\ spc' = "read"
    /\ UNCHANGED <<units, week_num, sheet_rows, generated_weeks, request_log,
                   distVars, classVars, helperVars, parseVars, practiceVars,
                   adjustVars>>

InitS ==
    InitSyllabus /\ IdleXlsx /\ IdleClass /\ IdleHelpers /\ IdleParse
        /\ IdleAdjust

NextSyllabus ==
    \/ PracticeTypeError
    \/ SyllabusPractice
    \/ PracticeReturn
    \/ PracticeFail
    \/ SyllabusWeekData
    \/ SyllabusSave
    \/ ReadWorkbook
    \/ GenerateMaestroJson

SpecSyllabus == InitS /\ [][NextSyllabus]_vars

\* the rows whose week cell is set
WeekStartRows == {i \in 1..Len(sheet_rows) : Truthy(sheet_rows[i].week_num)}

\* the requests sent for week wk, in order
RequestsOf(wk) == SelectSeq(request_log, LAMBDA r : r[1] = wk)

\* C25: when the reply yields a number of groups different from the number
\* of chapters of the week, the week ends in a fatal error after exactly
\* one request, add_practice_sessions_to_week returns nothing, the
\* worksheet holds the rows of the earlier weeks only, and nothing more
\* happens in the run.
C25_MismatchIsFatalAfterOneRequest ==
    (/\ gpc \in {"returned", "failed"}
     /\ Len(all_practice_sessions) # Len(week_lessons))
    => /\ gpc = "failed"
       /\ RequestsOf(week_num) = << <<week_num, "practice">> >>
       /\ week_lessons_with_practice = <<>>
       /\ Len(generated_weeks) = week_num - 1
       /\ {CoerceInt(sheet_rows[i].week_num) : i \in WeekStartRows}
             = 1..(week_num - 1)
       /\ ~ENABLED NextSyllabus

\* the second week fails after the first was written
C25_Witness ==
    /\ gpc = "failed"
    /\ week_num = 2
    /\ Len(all_practice_sessions) = 4
    /\ Len(request_log) = 8
    /\ sheet_rows # <<>>

\* the rows written for week wk
RowsOfWeek(wk) ==
    LET first == CHOOSE i \in WeekStartRows : CoerceInt(sheet_rows[i].week_num) = wk
        later == {i \in WeekStartRows : i > first}
        last == IF later = {} THEN Len(sheet_rows)
                ELSE (CHOOSE i \in later : \A j \in later : i <= j) - 1
    IN  SubSeq(sheet_rows, first, last)

RECURSIVE SumOfTimes(_)
SumOfTimes(rows) ==
    IF rows = <<>> THEN 0
    ELSE DigitsValue(Head(rows).time_to_complete) + SumOfTimes(Tail(rows))

\* C27: the times written into the rows of a week total 30 hours.
C27_WrittenTimesTotal30Hours ==
    \A n \in 1..Len(generated_weeks) :
        SumOfTimes(RowsOfWeek(generated_weeks[n].week_num)) = 1800

\* the lessons of a generated week without the injected ones: the live
\* sessions at the start of every chapter and the weekly reviews at the end
\* of the last chapter
RECURSIVE OwnLessons(_, _)
OwnLessons(chapters, c) ==
    IF c > Len(chapters) THEN <<>>
    ELSE SubSeq(chapters[c], NUM_LIVE_SESSIONS_PER_CHAPTER + 1,
                Len(chapters[c])
                   - (IF c = Len(chapters) THEN NUM_WEEKLY_REVIEW_PER_WEEK ELSE 0))
         \o OwnLessons(chapters, c + 1)

\* C28 as stated: the injected lessons are classified Skip, and the unit of
\* an exported week holds exactly the original and practice lessons of the
\* week, in chapter order.
C28_UnitHoldsAllOwnLessons ==
    /\ Classify(LIVE_SESSION_TITLE) = "Skip"
    /\ Classify(WEEKLY_REVIEW_TITLE) = "Skip"
    /\ (spc = "read" /\ pc = "exported") =>
          /\ Len(units) = Len(generated_weeks)
          /\ \A n \in 1..Len(units) :
                LET own == OwnLessons(generated_weeks[n].chapters, 1)
                IN  units[n].lessons = [i \in 1..Len(own) |-> LessonObj(own[i])]

\* C28, amended: the injected lessons are classified Skip, and the unit of
\* an exported week holds exactly those original and practice lessons of
\* the week that have a title and are not themselves classified Skip, in
\* chapter order.
C28_UnitHoldsOwnLessonsNotSkipped ==
    /\ Classify(LIVE_SESSION_TITLE) = "Skip"
    /\ Classify(WEEKLY_REVIEW_TITLE) = "Skip"
    /\ (spc = "read" /\ pc = "exported") =>
          /\ Len(units) = Len(generated_weeks)
          /\ \A n \in 1..Len(units) :
                LET own == SelectSeq(OwnLessons(generated_weeks[n].chapters, 1),
                                     LAMBDA l : l.title # <<>> /\ NotSkip(l))
                IN  units[n].lessons = [i \in 1..Len(own) |-> LessonObj(own[i])]

\* week 1 has one original lesson and five practice sessions; all six are
\* in its unit and the six injected lessons are not
C28_Witness ==
    /\ spc = "read"
    /\ pc = "exported"
    /\ Len(lessons) = 1
    /\ lessons[1].title = <<"I","n","t","r","o">>
    /\ Len(FlatLessons(weeks_data[1].chapters)) = 12
    /\ Len(units[1].lessons) = 6
    /\ units[1].lessons[1].title = <<"I","n","t","r","o">>

(***************************************************************************)
(* adjust_times_to_30_hours(week_lessons, estimated_times): every time is  *)
(* scaled by 1800 / total and rounded to the nearest multiple of 5, at     *)
(* least 15.                                                               *)
(***************************************************************************)
MaxChapters == 2
MaxTimes == 2
TARGET_MINUTES == 1800
ROUNDING_STEP == 5
MINIMUM_ADJUSTED_TIME == 15

RECURSIVE SumSeq(_)
SumSeq(times) == IF times = <<>> THEN 0 ELSE Head(times) + SumSeq(Tail(times))

\* sum(sum(chapter_times) for chapter_times in estimated_times)
RECURSIVE TotalOf(_)
TotalOf(chapters) ==
    IF chapters = <<>> THEN 0 ELSE SumSeq(Head(chapters)) + TotalOf(Tail(chapters))

\* round(num / den) of Python for num >= 0, den > 0: to the nearest
\* integer, halves to the even neighbour
RoundRatio(num, den) ==
    LET q == num \div den
        r == num % den
    IN  IF 2 * r > den \/ (2 * r = den /\ q % 2 = 1) THEN q + 1 ELSE q

\* max(15, round(time * scale_factor / 5) * 5), scale_factor = 1800 / total
AdjustedTime(time, total_estimated) ==
    LET adjusted_time ==
           RoundRatio(time * TARGET_MINUTES, total_estimated * ROUNDING_STEP)
              * ROUNDING_STEP
    IN  IF adjusted_time < MINIMUM_ADJUSTED_TIME THEN MINIMUM_ADJUSTED_TIME
        ELSE adjusted_time

\* adjust_times_to_30_hours(week_lessons, estimated_times)
adjust_times_to_30_hours(times) ==
    LET total_estimated == TotalOf(times)
    IN  IF total_estimated = 0 THEN times
        ELSE [c \in 1..Len(times) |->
                 [j \in 1..Len(times[c]) |->
                     AdjustedTime(times[c][j], total_estimated)]]

\* the values of estimate_lesson_time, and 0
TimeValues == {0, 45, 60, 90, 120}

ChapterTimes == UNION {[1..n -> TimeValues] : n \in 0..MaxTimes}

InitAdjust ==
    /\ estimated_times \in UNION {[1..n -> ChapterTimes] : n \in 0..MaxChapters}
    /\ adjusted_times = <<>>
    /\ apc = "called"

AdjustTimes ==
    /\ apc = "called"
    /\ adjusted_times' = adjust_times_to_30_hours(estimated_times)
    /\ apc' = "returned"
    /\ UNCHANGED <<estimated_times, xlsxVars, distVars, classVars, helperVars,
                   parseVars, practiceVars, syllabusVars>>

InitA ==
    InitAdjust /\ IdleXlsx /\ IdleDist /\ IdleClass /\ IdleHelpers /\ IdleParse
        /\ IdlePractice /\ IdleSyllabus

NextAdjust == AdjustTimes

SpecAdjust == InitA /\ [][NextAdjust]_vars

\* C26: for estimated times with a non-zero sum the returned times total
\* exactly 1800 minutes, with the same chapters and the same number of
\* times per chapter as the input.
C26_AdjustedTimesTotal1800 ==
    (apc = "returned" /\ TotalOf(estimated_times) # 0) =>
        /\ TotalOf(adjusted_times) = 1800
        /\ Len(adjusted_times) = Len(estimated_times)
        /\ \A c \in 1..Len(estimated_times) :
              Len(adjusted_times[c]) = Len(estimated_times[c])

====
